---- MODULE Spec2Model ----
(***************************************************************************)
(* A model of the AnkiWeb .apkg import core: the archive validator, the    *)
(* deck parser with its media gate, the card template renderer and the     *)
(* import page that drives them.                                           *)
(*                                                                         *)
(* Text is a sequence of one-character strings, so that the regular        *)
(* expressions of the source are modelled by what they match.              *)
(***************************************************************************)
EXTENDS Integers, Sequences, FiniteSets, TLC

VARIABLES
    \* the preview of one card (getCardPreviews)
    template,      \* the card's template {front, back}
    fields,        \* note.fields
    fieldNames,    \* noteType.fields
    frontResult,   \* processAnkiTemplate(template.front, ...)
    backResult,    \* processAnkiTemplate(template.back, ..., frontResult.content)
    rpc,           \* position inside the preview of one card
    \* one import
    file,          \* the archive the user selected
    page,          \* the component that runs the import
    pc,            \* position inside the import
    databaseFile,  \* validateApkgFile: <<name>> of the database entry, or <<>>
    validation,    \* <<result of validateApkgFile>>, or <<>>
    SQL,           \* sqlScriptLoader: the module-level SQL is set
    loadingPromise,\* sqlScriptLoader: "null", or what the promise resolved to
    handles,       \* every database handle opened so far: [owner, open]
    dbResult,      \* <<result of loadAnkiDatabase>>, or <<>>
    parsedData,    \* <<result of parseFullDeck>>, or <<>>
    deckData,      \* DeckImportPage state: <<deck>> or <<>> (null)
    allCards,      \* DeckImportPage state: the card previews
    parseError,    \* DeckImportPage state: <<error>> or <<>> (null)
    mediaDetails,  \* DeckImportPage state: <<details>> or <<>> (null)
    loading,       \* DeckImportPage loading / DatabaseTest isLoading
    testStatus,    \* DatabaseTest state
    databaseInfo,  \* DatabaseTest state: <<info>> or <<>> (null)
    events,        \* what was done with the handles, in order: [op, handle]
    \* several imports that share the module-level state of sqlScriptLoader
    imports,       \* the calls of validateApkgFile: [archive, pc, ...]
    loader,        \* the load of sql.js: [state, scripts, inits]
    online,        \* whether the script and the engine can be fetched
    \* one call of executeQuery
    query,         \* the statement it is given: [rows, fault]
    statement,     \* "none", "prepared" or "freed"
    queryResult    \* <<results>> once executeQuery has returned, or <<>>

renderVars == <<template, fields, fieldNames, frontResult, backResult, rpc>>

importVars == <<file, page, pc, databaseFile, validation, SQL, loadingPromise,
                handles, dbResult, parsedData, deckData, allCards, parseError,
                mediaDetails, loading, testStatus, databaseInfo, events>>

sessionVars == <<imports, loader, online>>

queryVars == <<query, statement, queryResult>>

vars == <<renderVars, importVars, sessionVars, queryVars>>

-----------------------------------------------------------------------------
(* Text helpers *)

Take(s, n) == SubSeq(s, 1, n)

Drop(s, n) == SubSeq(s, n + 1, Len(s))

\* String.prototype.toUpperCase on the letters a..z; the canonicalisation the
\* "i" flag of a RegExp compares with.
UpperCase(ch) ==
    CASE ch = "a" -> "A" [] ch = "b" -> "B" [] ch = "c" -> "C" [] ch = "d" -> "D"
      [] ch = "e" -> "E" [] ch = "f" -> "F" [] ch = "g" -> "G" [] ch = "h" -> "H"
      [] ch = "i" -> "I" [] ch = "j" -> "J" [] ch = "k" -> "K" [] ch = "l" -> "L"
      [] ch = "m" -> "M" [] ch = "n" -> "N" [] ch = "o" -> "O" [] ch = "p" -> "P"
      [] ch = "q" -> "Q" [] ch = "r" -> "R" [] ch = "s" -> "S" [] ch = "t" -> "T"
      [] ch = "u" -> "U" [] ch = "v" -> "V" [] ch = "w" -> "W" [] ch = "x" -> "X"
      [] ch = "y" -> "Y" [] ch = "z" -> "Z" [] OTHER -> ch

\* One character of a literal pattern against one character of the subject.
CharEq(a, b, ignoreCase) ==
    IF ignoreCase THEN UpperCase(a) = UpperCase(b) ELSE a = b

\* The literal pat occurs in s at index i.
StartsWithAt(s, i, pat, ignoreCase) ==
    /\ i >= 1
    /\ i + Len(pat) - 1 <= Len(s)
    /\ \A k \in 1..Len(pat) : CharEq(s[i + k - 1], pat[k], ignoreCase)

\* The least element of a set of indices, or 0 when the set is empty.
Least(hits) == IF hits = {} THEN 0 ELSE CHOOSE k \in hits : \A f \in hits : k <= f

\* The least index e in from..Len(s) with s[e] in stops, or 0 when there is none.
FirstOf(s, from, stops) ==
    Least({e \in from..Len(s) : s[e] \in stops})

\* The least index k in from..Len(s) where the literal pat occurs, or 0.
IndexOf(s, from, pat, ignoreCase) ==
    Least({k \in from..Len(s) : StartsWithAt(s, k, pat, ignoreCase)})

\* The grave accent character (U+0060), which a TLA+ string cannot hold.
Backtick == "U+0060"

\* String.prototype.replace with a string replacement: the "$" patterns of
\* GetSubstitution for a RegExp without capture groups: $$, $&, $' and $ followed
\* by the grave accent.
RECURSIVE GetSubstitution(_, _, _, _, _)
GetSubstitution(replacement, i, matched, before, after) ==
    IF i > Len(replacement) THEN <<>>
    ELSE IF replacement[i] = "$" /\ i < Len(replacement)
              /\ replacement[i + 1] \in {"$", "&", Backtick, "'"}
         THEN (CASE replacement[i + 1] = "$" -> <<"$">>
                 [] replacement[i + 1] = "&" -> matched
                 [] replacement[i + 1] = Backtick -> before
                 [] replacement[i + 1] = "'" -> after)
              \o GetSubstitution(replacement, i + 2, matched, before, after)
         ELSE <<replacement[i]>>
              \o GetSubstitution(replacement, i + 1, matched, before, after)

\* s.replace(new RegExp(<pat, every metacharacter escaped>, 'gi'), replacement):
\* every non-overlapping occurrence of the literal pat, scanning from index i.
RECURSIVE ReplaceAllFrom(_, _, _, _)
ReplaceAllFrom(s, i, pat, replacement) ==
    LET m == IndexOf(s, i, pat, TRUE)
    IN  IF m = 0 THEN Drop(s, i - 1)
        ELSE SubSeq(s, i, m - 1)
             \o GetSubstitution(replacement, 1, SubSeq(s, m, m + Len(pat) - 1),
                                Take(s, m - 1), Drop(s, m + Len(pat) - 1))
             \o ReplaceAllFrom(s, m + Len(pat), pat, replacement)

ReplaceAll(s, pat, replacement) == ReplaceAllFrom(s, 1, pat, replacement)

\* The characters "." does not match without the "s" flag.
LineTerminators == {"\n", "\r"}

Digits == {"0", "1", "2", "3", "4", "5", "6", "7", "8", "9"}

\* No character of s[from..to] is one of stops.
NoneIn(s, from, to, stops) == \A k \in from..to : s[k] \notin stops

-----------------------------------------------------------------------------
(* detectMediaReferences *)

Quotes == {"\"", "'"}

\* match.match(/src=["']([^"']+)["']/i): the reference captured at index p of
\* tag, as <<reference>>, or <<>> when the pattern does not match at p.
SrcAt(tag, p) ==
    IF /\ StartsWithAt(tag, p, <<"s","r","c","=">>, TRUE)
       /\ p + 4 <= Len(tag)
       /\ tag[p + 4] \in Quotes
    THEN LET q == FirstOf(tag, p + 5, Quotes)
         IN  IF q > p + 5 THEN <<SubSeq(tag, p + 5, q - 1)>> ELSE <<>>
    ELSE <<>>

\* The first match of the src pattern in tag, as <<reference>>, or <<>>.
SrcMatch(tag) ==
    LET hits == {p \in 1..Len(tag) : SrcAt(tag, p) # <<>>}
    IN  IF hits = {} THEN <<>>
        ELSE SrcAt(tag, CHOOSE p \in hits : \A f \in hits : p <= f)

\* content.match(/<img[^>]*>/gi), each match kept only when it has a quoted src.
RECURSIVE ImgMedia(_, _)
ImgMedia(content, i) ==
    LET m == Least({k \in i..Len(content) :
                      /\ StartsWithAt(content, k, <<"<","i","m","g">>, TRUE)
                      /\ FirstOf(content, k + 4, {">"}) # 0})
    IN  IF m = 0 THEN <<>>
        ELSE LET e == FirstOf(content, m + 4, {">"})
                 match == SubSeq(content, m, e)
                 srcMatch == SrcMatch(match)
             IN  (IF srcMatch # <<>>
                  THEN <<[type |-> "image", reference |-> srcMatch[1],
                          fullTag |-> match]>>
                  ELSE <<>>)
                 \o ImgMedia(content, e + 1)

SoundOpen == <<"[","s","o","u","n","d",":">>

\* match.replace(/\[sound:|\]/g, ''): no "i" flag on this one.
RECURSIVE StripSound(_, _)
StripSound(match, i) ==
    IF i > Len(match) THEN <<>>
    ELSE IF StartsWithAt(match, i, SoundOpen, FALSE)
         THEN StripSound(match, i + Len(SoundOpen))
         ELSE IF match[i] = "]" THEN StripSound(match, i + 1)
              ELSE <<match[i]>> \o StripSound(match, i + 1)

\* content.match(/\[sound:[^\]]+\]/gi)
RECURSIVE SoundMedia(_, _)
SoundMedia(content, i) ==
    LET m == Least({k \in i..Len(content) :
                      /\ StartsWithAt(content, k, SoundOpen, TRUE)
                      /\ FirstOf(content, k + 7, {"]"}) > k + 7})
    IN  IF m = 0 THEN <<>>
        ELSE LET e == FirstOf(content, m + 7, {"]"})
                 match == SubSeq(content, m, e)
             IN  <<[type |-> "audio", reference |-> StripSound(match, 1),
                    fullTag |-> match]>>
                 \o SoundMedia(content, e + 1)

\* The index of the last character of a match of /<name[^>]*>.*?<\/name>/is
\* starting at index i of content, or 0 when there is none.
ElementEnd(content, i, name) ==
    IF StartsWithAt(content, i, <<"<">> \o name, TRUE)
    THEN LET gt == FirstOf(content, i + 1 + Len(name), {">"})
             close == <<"<", "/">> \o name \o <<">">>
         IN  IF gt = 0 THEN 0
             ELSE LET c == IndexOf(content, gt + 1, close, TRUE)
                  IN  IF c = 0 THEN 0 ELSE c + Len(close) - 1
    ELSE 0

\* content.match(/<(n1|n2|...)[^>]*>.*?<\/\1>/gis) for the tag names given in
\* the order of the alternation; every match reported as a medium of mediaType.
RECURSIVE ElementMedia(_, _, _, _, _)
ElementMedia(content, i, names, mediaType, reference) ==
    LET m == Least({k \in i..Len(content) :
                      \E n \in 1..Len(names) : ElementEnd(content, k, names[n]) # 0})
    IN  IF m = 0 THEN <<>>
        ELSE LET n == Least({a \in 1..Len(names) :
                               ElementEnd(content, m, names[a]) # 0})
                 e == ElementEnd(content, m, names[n])
             IN  <<[type |-> mediaType, reference |-> reference,
                    fullTag |-> SubSeq(content, m, e)]>>
                 \o ElementMedia(content, e + 1, names, mediaType, reference)

\* A value that is not a string (a number in the JSON of a template): its
\* .match is not a function.
NotAString == <<"#number">>

detectMediaReferences(content) ==
    IF content = <<>> THEN <<>>
    ELSE ImgMedia(content, 1)
         \o SoundMedia(content, 1)
         \o ElementMedia(content, 1, << <<"v","i","d","e","o">> >>, "video",
                         "embedded video")
         \o ElementMedia(content, 1, << <<"a","u","d","i","o">> >>, "audio_tag",
                         "embedded audio")
         \o ElementMedia(content, 1,
                         << <<"o","b","j","e","c","t">>, <<"e","m","b","e","d">> >>,
                         "embedded_object", "embedded media object")

-----------------------------------------------------------------------------
(* processAnkiTemplate *)

FrontSideToken == <<"{","{","F","r","o","n","t","S","i","d","e","}","}">>

ClozeOpen ==
    <<"<","s","p","a","n"," ","s","t","y","l","e","=","\"","c","o","l","o","r",
      ":"," ","b","l","u","e",";"," ","f","o","n","t","-","w","e","i","g","h",
      "t",":"," ","b","o","l","d",";","\"",">","[">>

ClozeClose == <<"]","<","/","s","p","a","n",">">>

MissingField ==
    <<"<","s","p","a","n"," ","s","t","y","l","e","=","\"","c","o","l","o","r",
      ":"," ","r","e","d",";"," ","f","o","n","t","-","s","i","z","e",":"," ",
      "0",".","8","e","m",";","\"",">","[","M","i","s","s","i","n","g"," ","F",
      "i","e","l","d","]","<","/","s","p","a","n",">">>

\* fields[index] || ''
FieldValue(flds, index) == IF index <= Len(flds) THEN flds[index] ELSE <<>>

\* Step 1: fieldNames.forEach((fieldName, index) => processed =
\* processed.replace(new RegExp(the escaped {{fieldName}}, 'gi'), fieldValue))
RECURSIVE FieldStep(_, _, _, _)
FieldStep(processed, flds, names, index) ==
    IF index > Len(names) THEN processed
    ELSE FieldStep(ReplaceAll(processed,
                              <<"{","{">> \o names[index] \o <<"}","}">>,
                              FieldValue(flds, index)),
                   flds, names, index + 1)

\* Step 2 without its guard: an empty frontContent erases the token.
FrontSideStepUnguarded(processed, frontContent) ==
    ReplaceAll(processed, FrontSideToken, frontContent)

\* Step 2: if (frontContent) processed.replace(/\{\{FrontSide\}\}/gi, frontContent)
FrontSideStep(processed, frontContent) ==
    IF frontContent # <<>>
    THEN ReplaceAll(processed, FrontSideToken, frontContent)
    ELSE processed

\* The index after the greedy \d+ that starts at index i (i itself when no digit).
RECURSIVE DigitsEnd(_, _)
DigitsEnd(s, i) ==
    IF i <= Len(s) /\ s[i] \in Digits THEN DigitsEnd(s, i + 1) ELSE i

\* The lazy (.*?) of the hint, opened by "::" at index j: the least k with "}}"
\* at k and no line terminator in between, or 0.
HintClose(s, j) ==
    IF StartsWithAt(s, j, <<":",":">>, FALSE)
    THEN LET hits == {k \in (j + 2)..Len(s) :
                        /\ StartsWithAt(s, k, <<"}","}">>, FALSE)
                        /\ NoneIn(s, j + 2, k - 1, LineTerminators)}
         IN  IF hits = {} THEN 0 ELSE CHOOSE k \in hits : \A f \in hits : k <= f
    ELSE 0

\* /\{\{c(\d+)::(.*?)(?:::(.*?))?\}\}/ at index i of s: [last |-> the index of
\* the last character matched (0: no match), text |-> capture group 2].
ClozeAt(s, i) ==
    LET d == DigitsEnd(s, i + 3)
        ok == /\ StartsWithAt(s, i, <<"{","{","c">>, FALSE)
              /\ d > i + 3
              /\ StartsWithAt(s, d, <<":",":">>, FALSE)
        t0 == d + 2
        \* the lazy text ends before the least j from which the rest matches
        ends == {j \in t0..Len(s) :
                    /\ NoneIn(s, t0, j - 1, LineTerminators)
                    /\ \/ HintClose(s, j) # 0
                       \/ StartsWithAt(s, j, <<"}","}">>, FALSE)}
    IN  IF ~ok \/ ends = {} THEN [last |-> 0, text |-> <<>>]
        ELSE LET j == CHOOSE e \in ends : \A f \in ends : e <= f
             IN  [last |-> IF HintClose(s, j) # 0 THEN HintClose(s, j) + 1
                           ELSE j + 1,
                  text |-> SubSeq(s, t0, j - 1)]

\* Step 4: processed.replace(<cloze pattern>/g, (match, num, text, hint) =>
\* <span style="color: blue; font-weight: bold;">[${text}]</span>)
RECURSIVE ClozeStep(_, _)
ClozeStep(s, i) ==
    LET m == Least({k \in i..Len(s) : ClozeAt(s, k).last # 0})
    IN  IF m = 0 THEN Drop(s, i - 1)
        ELSE SubSeq(s, i, m - 1) \o ClozeOpen \o ClozeAt(s, m).text \o ClozeClose
             \o ClozeStep(s, ClozeAt(s, m).last + 1)

\* /\{\{[^}]+\}\}/ at index i of s: the index of the last character matched, or 0.
PlaceholderAt(s, i) ==
    IF StartsWithAt(s, i, <<"{","{">>, FALSE)
    THEN LET e == FirstOf(s, i + 2, {"}"})
         IN  IF e > i + 2 /\ StartsWithAt(s, e, <<"}","}">>, FALSE) THEN e + 1
             ELSE 0
    ELSE 0

\* Step 5 without the "g" flag: only the first placeholder is replaced.
MissingStepFirstOnly(s, i) ==
    LET m == Least({k \in i..Len(s) : PlaceholderAt(s, k) # 0})
    IN  IF m = 0 THEN Drop(s, i - 1)
        ELSE SubSeq(s, i, m - 1) \o MissingField \o Drop(s, PlaceholderAt(s, m))

\* Step 5: processed.replace(/\{\{[^}]+\}\}/g, '<span ...>[Missing Field]</span>')
RECURSIVE MissingStep(_, _)
MissingStep(s, i) ==
    LET m == Least({k \in i..Len(s) : PlaceholderAt(s, k) # 0})
    IN  IF m = 0 THEN Drop(s, i - 1)
        ELSE SubSeq(s, i, m - 1) \o MissingField
             \o MissingStep(s, PlaceholderAt(s, m) + 1)

\* The media found in the field values, field by field (step 1).
RECURSIVE FieldMedia(_, _, _)
FieldMedia(flds, names, index) ==
    IF index > Len(names) THEN <<>>
    ELSE detectMediaReferences(FieldValue(flds, index))
         \o FieldMedia(flds, names, index + 1)

\* The template after steps 1 and 2.
Substituted(tmpl, flds, names, frontContent) ==
    FrontSideStep(FieldStep(tmpl, flds, names, 1), frontContent)

processAnkiTemplate(tmpl, flds, names, frontContent) ==
    IF tmpl = <<>> THEN [content |-> <<>>, mediaFound |-> <<>>]
    ELSE LET processed == Substituted(tmpl, flds, names, frontContent)
         IN  [content |-> MissingStep(ClozeStep(processed, 1), 1),
              mediaFound |-> FieldMedia(flds, names, 1)
                             \o detectMediaReferences(processed)]

-----------------------------------------------------------------------------
(* The database as the queries of the parser see it.                         *)
(*   models : [valid |-> the models column parses as JSON,                   *)
(*             value |-> the model objects, in Object.values order]          *)
(*   decks  : the same for the decks column                                  *)
(*   notes  : the rows of notes, ORDER BY id                                 *)
(*   cards  : the rows of cards, ORDER BY nid, ord                           *)
(*   tables : the tables of the file                                         *)
(*   columns: [col, notes, cards |-> the columns that table has]             *)
(* The value of a column in a row is <<v>>, or <<>> for undefined when the   *)
(* column was not selected; in a parsed entity <<>> is null.                 *)

\* PRAGMA table_info(table): the columns of the table, [] when the statement
\* fails or the table does not exist.
TableInfo(db, table) == IF table \in db.tables THEN db.columns[table] ELSE {}

\* executeQuery on SELECT wanted FROM table ORDER BY orderBy: the statement is
\* prepared only if it names a column and every column it names exists;
\* otherwise executeQuery catches the error and answers [].
Selects(db, table, wanted, orderBy) ==
    /\ wanted # {}
    /\ wanted \cup orderBy \subseteq TableInfo(db, table)

\* row[name] of a row that was selected with the columns cols.
Column(row, name, cols) == IF name \in cols THEN <<row[name]>> ELSE <<>>

\* value || null, on a number
OrNull(value) == IF value = <<0>> THEN <<>> ELSE value

DecimalDigits == <<"0", "1", "2", "3", "4", "5", "6", "7", "8", "9">>

\* The decimal digits of a natural number.
RECURSIVE DigitsOf(_)
DigitsOf(n) ==
    IF n < 10 THEN <<DecimalDigits[n + 1]>>
    ELSE DigitsOf(n \div 10) \o <<DecimalDigits[(n % 10) + 1]>>

\* The text a template literal makes of an integer.
NumberToString(n) == IF n < 0 THEN <<"-">> \o DigitsOf(-n) ELSE DigitsOf(n)

\* The text a template literal makes of row.queue, undefined included.
TemplateText(queue) ==
    IF queue = <<>> THEN <<"u", "n", "d", "e", "f", "i", "n", "e", "d">> ELSE NumberToString(queue[1])

\* getCardStatus(queue): the switch compares with ===, the default case
\* formats the value it was given.
getCardStatus(queue) ==
    IF queue = <<0>> THEN <<"N", "e", "w">>
    ELSE IF queue = <<1>> THEN <<"L", "e", "a", "r", "n", "i", "n", "g">>
    ELSE IF queue = <<2>> THEN <<"R", "e", "v", "i", "e", "w">>
    ELSE IF queue = <<-1>> THEN <<"S", "u", "s", "p", "e", "n", "d", "e", "d">>
    ELSE IF queue = <<-2>> THEN <<"B", "u", "r", "i", "e", "d", " ", "(", "s", "c", "h", "e", "d", "u", "l", "e", "r", ")">>
    ELSE IF queue = <<-3>> THEN <<"B", "u", "r", "i", "e", "d", " ", "(", "u", "s", "e", "r", ")">>
    ELSE <<"U", "n", "k", "n", "o", "w", "n", " ", "(">> \o TemplateText(queue) \o <<")">>

\* The unit separator (U+001F) that joins the fields of a note.
UnitSeparator == "U+001F"

\* A split that takes a blank for a separator as well.
RECURSIVE SplitOnBlankToo(_, _, _)
SplitOnBlankToo(s, i, sep) ==
    LET m == FirstOf(s, i, {sep, " "})
    IN  IF m = 0 THEN <<Drop(s, i - 1)>>
        ELSE <<SubSeq(s, i, m - 1)>> \o SplitOnBlankToo(s, m + 1, sep)

\* String.prototype.split on one separator character, from index i of s.
RECURSIVE SplitFrom(_, _, _)
SplitFrom(s, i, sep) ==
    LET m == FirstOf(s, i, {sep})
    IN  IF m = 0 THEN <<Drop(s, i - 1)>>
        ELSE <<SubSeq(s, i, m - 1)>> \o SplitFrom(s, m + 1, sep)

\* parseDeckInfo: the decks that have an id and a name; the default deck is the
\* last one with id 1 or name "Default", else the first deck, else none (<<>>).
\* SELECT decks, conf FROM col is issued as it stands: when it fails the result
\* has no row; a decks column that is not JSON goes through the catch.
parseDeckInfo(db) ==
    IF ~Selects(db, "col", {"decks", "conf"}, {})
    THEN [decks |-> <<>>, defaultDeck |-> <<>>]
    ELSE IF ~db.decks.valid
    THEN [decks |-> <<>>, defaultDeck |-> <<>>, deckCount |-> 0]
    ELSE LET HasIdAndName(d) == d.id # 0 /\ d.name # ""
             IsDefault(d) == d.id = 1 \/ d.name = "Default"
             decks == SelectSeq(db.decks.value, HasIdAndName)
             defaults == SelectSeq(decks, IsDefault)
         IN  [decks |-> decks,
              defaultDeck |-> IF defaults # <<>> THEN <<defaults[Len(defaults)]>>
                              ELSE IF decks # <<>> THEN <<decks[1]>> ELSE <<>>,
              deckCount |-> Len(decks)]

\* parseNoteTypes: the models that have an id and a name; a models column that
\* is not JSON leaves no model.
parseNoteTypes(db) ==
    IF ~Selects(db, "col", {"models"}, {}) \/ ~db.models.valid
    THEN [models |-> <<>>, modelCount |-> 0]
    ELSE LET HasIdAndName(m) == m.id # 0 /\ m.name # ""
             Convert(m) == [id |-> m.id, name |-> m.name, fields |-> m.flds,
                            templates |-> [k \in 1..Len(m.tmpls) |->
                                [name |-> m.tmpls[k].name,
                                 front |-> m.tmpls[k].qfmt,
                                 back |-> m.tmpls[k].afmt]],
                            css |-> m.css]
             kept == SelectSeq(db.models.value, HasIdAndName)
         IN  [models |-> [k \in 1..Len(kept) |-> Convert(kept[k])],
              modelCount |-> Len(kept)]

\* baseColumns and optionalColumns of parseNotes
NoteColumns ==
    {"id", "flds", "sfld", "csum", "flags", "data", "did", "mid", "mod", "usn",
     "tags"}

\* fields = note.flds ? note.flds.split('\x1f') : []
NoteFields(flds) ==
    IF flds = <<>> \/ flds = <<<<>>>> THEN <<>>
    ELSE SplitFrom(flds[1], 1, UnitSeparator)

\* The note made of one row: id comes with every row, ORDER BY id needs it.
NoteOf(row, cols) ==
    [id |-> row.id,
     deckId |-> OrNull(Column(row, "did", cols)),
     modelId |-> OrNull(Column(row, "mid", cols)),
     fields |-> NoteFields(Column(row, "flds", cols))]

\* notesData.map(...) over the rows selected with the columns cols
NotesOf(rows, cols) == [k \in 1..Len(rows) |-> NoteOf(rows[k], cols)]

\* parseNotes: the columns of the two lists that the table has are selected.
parseNotes(db) ==
    IF ~Selects(db, "notes", NoteColumns \cap TableInfo(db, "notes"), {"id"})
    THEN <<>>
    ELSE NotesOf(db.notes, NoteColumns \cap TableInfo(db, "notes"))

\* baseColumns and optionalColumns of parseCards
CardColumns ==
    {"id", "nid", "ord", "did", "queue", "type", "due", "ivl", "factor", "reps",
     "lapses", "left", "odue", "odid", "flags", "data"}

\* The card made of one row: nid and ord come with every row, ORDER BY nid, ord
\* needs them; queue is null when the row has none, and the status is made of
\* what the row has.
CardOf(row, cols) ==
    [id |-> Column(row, "id", cols),
     noteId |-> row.nid,
     deckId |-> OrNull(Column(row, "did", cols)),
     templateIndex |-> row.ord,
     queue |-> Column(row, "queue", cols),
     status |-> getCardStatus(Column(row, "queue", cols))]

\* cardsData.map(...) over the rows selected with the columns cols
CardsOf(rows, cols) == [k \in 1..Len(rows) |-> CardOf(rows[k], cols)]

\* parseCards: the columns of the two lists that the table has are selected.
parseCards(db) ==
    IF ~Selects(db, "cards", CardColumns \cap TableInfo(db, "cards"),
                {"nid", "ord"})
    THEN <<>>
    ELSE CardsOf(db.cards, CardColumns \cap TableInfo(db, "cards"))

\* The elements of a finite set of integers in ascending order.
RECURSIVE Ascending(_)
Ascending(S) ==
    IF S = {} THEN <<>>
    ELSE LET least == CHOOSE x \in S : \A y \in S : x <= y
         IN  <<least>> \o Ascending(S \ {least})

\* SELECT COUNT(*) as count FROM table, 0 when the statement fails
CountOf(db, table, rows) == IF table \in db.tables THEN Len(rows) ELSE 0

\* SELECT queue, COUNT(*) FROM cards GROUP BY queue ORDER BY queue
CardsByStatus(rows, queues) ==
    [i \in 1..Len(queues) |->
        [status |-> getCardStatus(<<queues[i]>>),
         queue |-> queues[i],
         count |-> Cardinality({k \in 1..Len(rows) : rows[k].queue = queues[i]})]]

\* SELECT did as deck_id, COUNT(*) FROM notes GROUP BY did: the rows, as a set
\* (rows of equal count come in an order of the engine's choice).
NotesByDeck(rows) ==
    {[deck_id |-> rows[j].did,
      count |-> Cardinality({k \in 1..Len(rows) : rows[k].did = rows[j].did})] :
        j \in 1..Len(rows)}

\* The queries of getDeckStatistics; db.faults has those in which the engine
\* throws, executeQuery then answers [].
StatisticsQueries == {"countCards", "countNotes", "cardsByStatus", "notesByDeck"}

\* The statistics when the queries of failing throw: the two counts
\* ([0]?.count || 0), the cards by status if cards has a queue column, the
\* notes by deck if notes has a did column.
StatisticsOf(db, failing) ==
    [totalCards |-> IF "countCards" \in failing THEN 0
                    ELSE CountOf(db, "cards", db.cards),
     totalNotes |-> IF "countNotes" \in failing THEN 0
                    ELSE CountOf(db, "notes", db.notes),
     cardsByStatus |->
        IF "queue" \in TableInfo(db, "cards") /\ "cardsByStatus" \notin failing
        THEN CardsByStatus(db.cards,
                           Ascending({db.cards[k].queue : k \in 1..Len(db.cards)}))
        ELSE <<>>,
     notesByDeck |->
        IF "did" \in TableInfo(db, "notes") /\ "notesByDeck" \notin failing
        THEN NotesByDeck(db.notes)
        ELSE {}]

\* Statistics that a throwing query sends to the catch of getDeckStatistics.
StatisticsOrNothing(db) ==
    IF db.faults = {} THEN StatisticsOf(db, {})
    ELSE [totalCards |-> 0, totalNotes |-> 0, cardsByStatus |-> <<>>,
          notesByDeck |-> {}]

\* getDeckStatistics: no query of it throws, executeQuery has caught.
getDeckStatistics(db) == StatisticsOf(db, db.faults)

\* The name of the property that cardsByNote[card.noteId] reads and writes.
NoteKey(noteId) == NumberToString(noteId)

\* const deckId = note.deckId || 'unknown', as the name of a property
DeckKey(deckId) ==
    IF deckId = <<>> THEN <<"u", "n", "k", "n", "o", "w", "n">> ELSE NumberToString(deckId[1])

\* Relationships with one list of cards for every note, and no other list.
RelationshipsOfNotes(notes, cards) ==
    [cardsByNote |->
        [key \in {NoteKey(notes[k].id) : k \in 1..Len(notes)} |->
            LET OfNote(c) == NoteKey(c.noteId) = key IN SelectSeq(cards, OfNote)],
     notesByDeck |->
        [key \in {DeckKey(notes[k].deckId) : k \in 1..Len(notes)} |->
            LET OfDeck(n) == DeckKey(n.deckId) = key IN SelectSeq(notes, OfDeck)]]

\* buildRelationships: cardsByNote[noteId] and notesByDeck[deckId], the notes
\* without a deck under 'unknown'; a list is created when its first element
\* comes, and the elements are pushed in the order of the input.
buildRelationships(notes, cards) ==
    [cardsByNote |->
        [key \in {NoteKey(cards[k].noteId) : k \in 1..Len(cards)} |->
            LET OfNote(c) == NoteKey(c.noteId) = key IN SelectSeq(cards, OfNote)],
     notesByDeck |->
        [key \in {DeckKey(notes[k].deckId) : k \in 1..Len(notes)} |->
            LET OfDeck(n) == DeckKey(n.deckId) = key IN SelectSeq(notes, OfDeck)]]

\* if (media.length > 0) mediaIssues.push({location, media})
Issue(location, media) ==
    IF media # <<>> THEN <<[location |-> location, media |-> media]>> ELSE <<>>

\* The issues of one template: its front, then its back.
TemplateIssues(model, tmpl) ==
    Issue([noteType |-> model.name, template |-> tmpl.name, part |-> "Front"],
          detectMediaReferences(tmpl.front))
    \o
    Issue([noteType |-> model.name, template |-> tmpl.name, part |-> "Back"],
          detectMediaReferences(tmpl.back))

RECURSIVE TemplatesIssues(_, _)
TemplatesIssues(model, k) ==
    IF k > Len(model.templates) THEN <<>>
    ELSE TemplateIssues(model, model.templates[k]) \o TemplatesIssues(model, k + 1)

\* The issues of the note types: per model its templates, then its CSS.
RECURSIVE ModelIssues(_, _)
ModelIssues(models, k) ==
    IF k > Len(models) THEN <<>>
    ELSE TemplatesIssues(models[k], 1)
         \o Issue([noteType |-> models[k].name, part |-> "CSS"],
                  detectMediaReferences(models[k].css))
         \o ModelIssues(models, k + 1)

\* model?.fields?.[fieldIndex], or else the label "Field " + (fieldIndex + 1)
FieldLabel(models, note, fieldIndex) ==
    LET OfNote(m) == <<m.id>> = note.modelId
        found == SelectSeq(models, OfNote)
    IN  IF found # <<>> /\ fieldIndex <= Len(found[1].fields)
           /\ found[1].fields[fieldIndex] # <<>>
        THEN [name |-> found[1].fields[fieldIndex]]
        ELSE [number |-> fieldIndex]

RECURSIVE FieldIssues(_, _, _, _)
FieldIssues(models, notes, n, f) ==
    IF n > Len(notes) THEN <<>>
    ELSE IF f > Len(notes[n].fields) THEN FieldIssues(models, notes, n + 1, 1)
    ELSE Issue([note |-> n, field |-> FieldLabel(models, notes[n], f)],
               detectMediaReferences(notes[n].fields[f]))
         \o FieldIssues(models, notes, n, f + 1)

\* The number of media references of all issues together.
RECURSIVE TotalMedia(_)
TotalMedia(issues) ==
    IF issues = <<>> THEN 0 ELSE Len(Head(issues).media) + TotalMedia(Tail(issues))

\* detectMediaReferences throws on a template or CSS value that is no string.
MediaScanThrows(noteTypes) ==
    \E k \in 1..Len(noteTypes.models) :
        \/ noteTypes.models[k].css = NotAString
        \/ \E j \in 1..Len(noteTypes.models[k].templates) :
              \/ noteTypes.models[k].templates[j].front = NotAString
              \/ noteTypes.models[k].templates[j].back = NotAString

\* The end of validateDeckForMedia: the verdict on the issues collected.
MediaVerdict(mediaIssues) ==
    IF mediaIssues # <<>>
    THEN [isValid |-> FALSE,
          error |-> [kind |-> "MediaInContent",
                     references |-> TotalMedia(mediaIssues),
                     locations |-> Len(mediaIssues)],
          details |-> mediaIssues]
    ELSE [isValid |-> TRUE, details |-> <<>>]

validateDeckForMedia(noteTypes, notes, cards) ==
    MediaVerdict(ModelIssues(noteTypes.models, 1)
                 \o FieldIssues(noteTypes.models, notes, 1, 1))

\* A parseFullDeck that hands out the deck it parsed together with the media
\* failure.
DeckResultPartial(deckInfo, noteTypes, notes, cards, statistics, mediaValidation) ==
    IF ~mediaValidation.isValid
    THEN [success |-> FALSE, error |-> mediaValidation.error,
          mediaDetails |-> mediaValidation.details,
          deckInfo |-> deckInfo, noteTypes |-> noteTypes,
          notes |-> notes, cards |-> cards, statistics |-> statistics]
    ELSE [success |-> TRUE, deckInfo |-> deckInfo, noteTypes |-> noteTypes,
          notes |-> notes, cards |-> cards, statistics |-> statistics,
          relationships |-> buildRelationships(notes, cards),
          mediaValidation |-> mediaValidation]

\* The two returns of the try block of parseFullDeck.
DeckResult(deckInfo, noteTypes, notes, cards, statistics, mediaValidation) ==
    IF ~mediaValidation.isValid
    THEN [success |-> FALSE, error |-> mediaValidation.error,
          mediaDetails |-> mediaValidation.details]
    ELSE [success |-> TRUE, deckInfo |-> deckInfo, noteTypes |-> noteTypes,
          notes |-> notes, cards |-> cards, statistics |-> statistics,
          relationships |-> buildRelationships(notes, cards),
          mediaValidation |-> mediaValidation]

\* A parseFullDeck that gives up on a deck without decks or without models.
ParsedDeckStrict(deckInfo, noteTypes, notes, cards, statistics) ==
    IF deckInfo.decks = <<>> \/ noteTypes.models = <<>>
    THEN [success |-> FALSE, error |-> [kind |-> "SchemaMismatch"]]
    ELSE DeckResult(deckInfo, noteTypes, notes, cards, statistics,
                    validateDeckForMedia(noteTypes, notes, cards))

\* The try block of parseFullDeck on the parts already parsed, and its catch.
ParsedDeck(deckInfo, noteTypes, notes, cards, statistics) ==
    IF MediaScanThrows(noteTypes)
    THEN [success |-> FALSE, error |-> [kind |-> "TypeError"]]
    ELSE DeckResult(deckInfo, noteTypes, notes, cards, statistics,
                    validateDeckForMedia(noteTypes, notes, cards))

parseFullDeck(db) ==
    ParsedDeck(parseDeckInfo(db), parseNoteTypes(db), parseNotes(db),
               parseCards(db), getDeckStatistics(db))

\* Math.min(cards.length, limit)
Min(a, b) == IF a < b THEN a ELSE b

\* previews.push({...}) with the two results of processAnkiTemplate
PreviewOf(card, note, noteType, tmpl, front, back) ==
    [cardId |-> card.id, noteId |-> note.id,
     front |-> front.content, back |-> back.content,
     noteType |-> noteType.name, templateName |-> tmpl.name,
     mediaFound |-> front.mediaFound \o back.mediaFound]

\* The back is processed with the content of the front at hand.
RenderedBack(card, note, noteType, tmpl, front) ==
    PreviewOf(card, note, noteType, tmpl, front,
              processAnkiTemplate(tmpl.back, note.fields, noteType.fields,
                                  front.content))

Rendered(card, note, noteType, tmpl) ==
    RenderedBack(card, note, noteType, tmpl,
                 processAnkiTemplate(tmpl.front, note.fields, noteType.fields, <<>>))

\* const template = noteType.templates[card.templateIndex]; if (!template) continue
TemplatePreview(card, note, noteType) ==
    IF card.templateIndex + 1 \notin 1..Len(noteType.templates) THEN <<>>
    ELSE <<Rendered(card, note, noteType,
                    noteType.templates[card.templateIndex + 1])>>

\* const noteType = noteTypes.models[note.modelId]; if (!noteType) continue
NotePreview(card, note, types) ==
    IF types = <<>> THEN <<>> ELSE TemplatePreview(card, note, types[Len(types)])

\* The preview of cards[i], as <<preview>>, or <<>> when its note, its note
\* type or its template is missing (the three "continue" of the loop).
CardPreview(notes, cards, noteTypes, i) ==
    LET OfCard(n) == n.id = cards[i].noteId
        found == SelectSeq(notes, OfCard)
        OfNote(m) == <<m.id>> = found[Len(found)].modelId
    IN  IF found = <<>> THEN <<>>
        ELSE NotePreview(cards[i], found[Len(found)],
                         SelectSeq(noteTypes.models, OfNote))

RECURSIVE PreviewsFrom(_, _, _, _, _)
PreviewsFrom(notes, cards, noteTypes, i, last) ==
    IF i > last THEN <<>>
    ELSE CardPreview(notes, cards, noteTypes, i)
         \o PreviewsFrom(notes, cards, noteTypes, i + 1, last)

getCardPreviews(notes, cards, noteTypes, limit) ==
    PreviewsFrom(notes, cards, noteTypes, 1, Min(Len(cards), limit))

-----------------------------------------------------------------------------
(* validateApkgFile, loadAnkiDatabase and the sql.js loader                  *)
(*                                                                           *)
(* An archive is [zip, files, manifest, db]:                                 *)
(*   zip      : JSZip can read the file                                      *)
(*   files    : the entries in archive order, each [name, dir, data]         *)
(*   manifest : the text of the media entry, by how it parses:               *)
(*              [kind, keys, values] with kind one of "object", "array"      *)
(*              (JSON), "malformed" (opens like JSON, does not parse) and    *)
(*              "binary" (does not open like JSON)                           *)
(*   db       : what sql.js finds in the database file                       *)

StartsWith(s, prefix) == StartsWithAt(s, 1, prefix, FALSE)

EndsWith(s, suffix) ==
    /\ Len(suffix) <= Len(s)
    /\ SubSeq(s, Len(s) - Len(suffix) + 1, Len(s)) = suffix

CollectionPrefix == <<"c", "o", "l", "l", "e", "c", "t", "i", "o", "n", ".">>

DatabaseExtensions ==
    {<<".", "a", "n", "k", "i", "2">>, <<".", "a", "n", "k", "i", "2", "1">>, <<".", "a", "n", "k", "i", "2", "1", "b">>, <<".", "a", "n", "k", "i", "2", "1", "c">>}

MediaName == <<"m", "e", "d", "i", "a">>

MetaName == <<"m", "e", "t", "a">>

\* The predicate of foundFiles.find(...): the name of the collection database.
IsDatabaseFile(fileName) ==
    /\ StartsWith(fileName, CollectionPrefix)
    /\ \E ext \in DatabaseExtensions : EndsWith(fileName, ext)

isAnkiDatabase(fileName) ==
    \/ /\ StartsWith(fileName, CollectionPrefix)
       /\ \E ext \in DatabaseExtensions : EndsWith(fileName, ext)
    \/ fileName = <<"c", "o", "l", "l", "e", "c", "t", "i", "o", "n", ".", "a", "n", "k", "i", "2">>
    \/ fileName = <<"c", "o", "l", "l", "e", "c", "t", "i", "o", "n", ".", "a", "n", "k", "i", "2", "1">>

isSystemFile(fileName) ==
    \/ fileName = MediaName
    \/ fileName = MetaName
    \/ isAnkiDatabase(fileName)

\* Object.keys(zipContent.files)
foundFiles(archive) == [k \in 1..Len(archive.files) |-> archive.files[k].name]

\* foundFiles.find(...): <<name>> of the first database entry, or <<>>.
FindDatabaseFile(archive) ==
    LET found == SelectSeq(foundFiles(archive), IsDatabaseFile)
    IN  IF found = <<>> THEN <<>> ELSE <<found[1]>>

\* A check of the media entry that every archive passes.
MediaAssumed(archive) == TRUE

\* foundFiles.includes('media')
hasMedia(archive) == \E k \in 1..Len(archive.files) : archive.files[k].name = MediaName

potentialMediaFiles(archive) ==
    LET Potential(entry) == ~entry.dir /\ ~isSystemFile(entry.name)
        kept == SelectSeq(archive.files, Potential)
    IN  [k \in 1..Len(kept) |-> kept[k].name]

\* trimmedContent.startsWith('{') || trimmedContent.startsWith('[')
LooksLikeJson(manifest) == manifest.kind \in {"object", "array", "malformed"}

\* JSON.parse(mediaContent) returns
ParsesAsJson(manifest) == manifest.kind \in {"object", "array"}

\* Object.values(mediaInfo) of step 3, [] when the manifest is not read as JSON.
referencedMedia(manifest) ==
    IF LooksLikeJson(manifest) /\ ParsesAsJson(manifest) THEN manifest.values ELSE <<>>

\* A step 3 that takes every file that is no system file for a referenced one.
AllPotentialMedia(archive) == potentialMediaFiles(archive)

actuallyUsedMedia(archive) ==
    LET referenced == referencedMedia(archive.manifest)
        Referenced(fileName) == \E k \in 1..Len(referenced) : referenced[k] = fileName
    IN  SelectSeq(potentialMediaFiles(archive), Referenced)

\* A step 4 that takes a manifest it cannot parse for a manifest with an entry.
MediaEntriesStrict(manifest) ==
    IF LooksLikeJson(manifest) /\ ParsesAsJson(manifest) THEN manifest.keys
    ELSE <<<<"?">>>>

\* A step 4 that finds no entry in any manifest.
NoMediaEntries(manifest) == <<>>

\* Object.keys(mediaInfo) of step 4, [] when the manifest is not read as JSON.
mediaEntries(manifest) ==
    IF LooksLikeJson(manifest) /\ ParsesAsJson(manifest) THEN manifest.keys ELSE <<>>

\* zipContent.file(databaseFile).async('arraybuffer')
dbContentOf(archive, fileName) ==
    LET Named(entry) == entry.name = fileName /\ ~entry.dir
        found == SelectSeq(archive.files, Named)
    IN  found[1].data

\* new TextEncoder().encode('SQLite format 3\0')
sqliteHeader == <<83, 81, 76, 105, 116, 101, 32, 102, 111, 114, 109, 97, 116, 32, 51, 0>>

HeaderSlice == 16

ComparedBytes == 15

\* headerBytes.slice(0, 15).every((byte, index) => byte === expectedHeader[index])
isValidSQLite(dbContent) ==
    LET headerBytes == Take(dbContent, Min(Len(dbContent), HeaderSlice))
        compared == Take(headerBytes, Min(Len(headerBytes), ComparedBytes))
    IN  \A index \in 1..Len(compared) : compared[index] = sqliteHeader[index]

\* SQLite reads a file only when it starts with the whole 16-byte magic string;
\* on any other file every statement fails.
EngineReads(buffer) ==
    /\ Len(buffer) >= Len(sqliteHeader)
    /\ Take(buffer, Len(sqliteHeader)) = sqliteHeader

\* getTableNames(db): executeQuery answers [] when the statement fails.
getTableNames(buffer, db) == IF EngineReads(buffer) THEN db.tables ELSE {}

\* The rows the queries of the parser get from a database loaded from buffer.
QueryView(buffer, db) ==
    IF EngineReads(buffer) THEN db
    ELSE [db EXCEPT !.tables = {}, !.decks = [valid |-> FALSE, value |-> <<>>],
                    !.models = [valid |-> FALSE, value |-> <<>>],
                    !.notes = <<>>, !.cards = <<>>]

requiredTables == <<"cards", "notes", "col">>

\* A table check that misses nothing.
NoMissingTables(tables) == <<>>

\* A table check that reports the first missing table only.
FirstMissingTable(tables) ==
    LET Missing(table) == table \notin tables
        missing == SelectSeq(requiredTables, Missing)
    IN  IF missing = <<>> THEN <<>> ELSE <<missing[1]>>

missingTables(tables) ==
    LET Missing(table) == table \notin tables
    IN  SelectSeq(requiredTables, Missing)

\* initializeSqlJs, run to completion; loads tells whether the sql.js script
\* loads and initialises when it is fetched.
initializeSqlJs(sql, promise, loads) ==
    IF sql THEN [SQL |-> TRUE, loadingPromise |-> promise, result |-> TRUE]
    ELSE IF promise # "null"
    THEN [SQL |-> sql, loadingPromise |-> promise, result |-> promise = "true"]
    ELSE [SQL |-> loads,
          loadingPromise |-> IF loads THEN "true" ELSE "false",
          result |-> loads]

\* loadDatabase(buffer): "throws" without sql.js, "null" when the constructor
\* of the database fails, "db" otherwise. Whether the constructor fails is up
\* to sql.js: db.opens is "always", "never", or "once" for a file it opens
\* while no database has been opened before (opened = 0).
loadDatabase(sql, db, opened) ==
    IF ~sql THEN "throws"
    ELSE IF db.opens = "never" \/ (db.opens = "once" /\ opened > 0) THEN "null"
    ELSE "db"

Invalid(error) == [isValid |-> FALSE, error |-> error]

\* Steps 1 to 6 of validateApkgFile on the database entry found: <<error>> of
\* the first check that fails, <<>> when all pass.
GateError(archive, found) ==
    IF ~archive.zip THEN <<[kind |-> "FileValidationFailed"]>>
    ELSE IF found = <<>> THEN <<[kind |-> "MissingDatabase"]>>
    ELSE IF ~hasMedia(archive) THEN <<[kind |-> "MissingMedia"]>>
    ELSE IF potentialMediaFiles(archive) # <<>> /\ actuallyUsedMedia(archive) # <<>>
    THEN <<[kind |-> "ReferencedMedia",
            count |-> Len(actuallyUsedMedia(archive)),
            names |-> Take(actuallyUsedMedia(archive),
                           Min(Len(actuallyUsedMedia(archive)), 3))]>>
    ELSE IF mediaEntries(archive.manifest) # <<>>
    THEN <<[kind |-> "ManifestMedia",
            count |-> Len(mediaEntries(archive.manifest))]>>
    ELSE IF dbContentOf(archive, found[1]) = <<>>
    THEN <<[kind |-> "EmptyDatabase"]>>
    ELSE IF ~isValidSQLite(dbContentOf(archive, found[1]))
    THEN <<[kind |-> "InvalidHeader"]>>
    ELSE <<>>

\* Step 7 and the result of a validation that passed every check, for the
\* outcome of loadDatabase.
EngineResult(archive, dbContent, outcome) ==
    IF outcome = "throws" THEN Invalid([kind |-> "DatabaseValidationFailed"])
    ELSE IF outcome = "null" THEN Invalid([kind |-> "NotLoaded"])
    ELSE IF missingTables(getTableNames(dbContent, archive.db)) # <<>>
    THEN Invalid([kind |-> "MissingTables",
                  missing |-> missingTables(getTableNames(dbContent, archive.db))])
    ELSE [isValid |-> TRUE, databaseBuffer |-> dbContent,
          fileCount |-> Len(archive.files), databaseSize |-> Len(dbContent)]

\* The result of validateApkgFile as the first call of the page: sql.js has
\* not been asked for yet, loads tells whether it loads.
ValidationOf(archive, found, loads) ==
    IF GateError(archive, found) # <<>> THEN Invalid(GateError(archive, found)[1])
    ELSE EngineResult(archive, dbContentOf(archive, found[1]),
                      loadDatabase(initializeSqlJs(FALSE, "null", loads).SQL,
                                   archive.db, 0))

validateApkgFile(archive, loads) ==
    ValidationOf(archive, FindDatabaseFile(archive), loads)

-----------------------------------------------------------------------------
(* The preview of one card: getCardPreviews renders the front, then the back *)

MaxParts == 3

MaxValueParts == 3

MaxClozeLen == 2

\* The concatenation of the texts parts[ix[1]], parts[ix[2]], ...
RECURSIVE Concat(_, _)
Concat(parts, ix) ==
    IF ix = <<>> THEN <<>> ELSE parts[Head(ix)] \o Concat(parts, Tail(ix))

\* Every text made of at most n of the given parts.
Texts(parts, n) ==
    {Concat(parts, ix) : ix \in UNION {[1..k -> 1..Len(parts)] : k \in 0..n}}

FieldA == <<"{","{","A","}","}">>

TemplateParts ==
    << FieldA,
       FrontSideToken,
       <<"{","{","M","i","s","s","i","n","g","}","}">>,
       <<"{","{","c","1",":",":">>,
       <<":",":">>,
       <<"}","}">>,
       <<"{">> >>

ValueParts ==
    << <<"$">>, <<"&">>, <<"'">>, <<Backtick>>, <<"v">>, <<"{","{","B","}","}">> >>

ClozeChars == << <<"a">>, <<":">>, <<"\n">> >>

\* {{c<num>::<text>}} or {{c<num>::<text>::<hint>}}
ClozeToken(num, text, hint, hasHint) ==
    <<"{","{","c">> \o num \o <<":",":">> \o text
    \o (IF hasHint THEN <<":",":">> \o hint ELSE <<>>) \o <<"}","}">>

BackWithFrontSide == FrontSideToken \o <<"-">> \o FieldA

TwoFields == << <<"A">>, <<"B">> >>

\* Templates of every shape, rendered with a plain field value, and the
\* shorter ones with a field value that is the FrontSide token.
TemplateInputs ==
    {[front |-> f, back |-> BackWithFrontSide, names |-> TwoFields,
      flds |-> << <<"v">>, <<"w">> >>] :
        f \in Texts(TemplateParts, MaxParts)}
    \cup
    {[front |-> f, back |-> BackWithFrontSide, names |-> TwoFields,
      flds |-> <<FrontSideToken, <<"w">> >>] :
        f \in Texts(TemplateParts, MaxParts - 1)}

\* Field values of every shape, substituted into a few templates.
ValueInputs ==
    {[front |-> f, back |-> BackWithFrontSide, names |-> TwoFields,
      flds |-> <<a, <<"w">> >>] :
        f \in {FieldA, <<"x","{","{","a","}","}","y">> \o FieldA},
        a \in Texts(ValueParts, MaxValueParts)}

\* Cloze tokens, in the template itself.
ClozeInputs ==
    {[front |-> ClozeToken(n, t, h, hh), back |-> BackWithFrontSide,
      names |-> TwoFields, flds |-> << <<"v">>, <<"w">> >>] :
        n \in {<<"1">>, <<"2","0">>},
        t \in Texts(ClozeChars, MaxClozeLen),
        h \in Texts(ClozeChars, 1),
        hh \in BOOLEAN}

PreviewInputs == TemplateInputs \cup ValueInputs \cup ClozeInputs

-----------------------------------------------------------------------------
(* Decks: one note type with one template, one note of two fields, one card *)

MaxMediaLocations == 2

AnkiTables == {"cards", "notes", "col", "revlog", "graves"}

ImgDouble == <<"<", "i", "m", "g", " ", "s", "r", "c", "=", "\"", "a", "\"", ">">>

ImgSingle == <<"<", "i", "m", "g", " ", "s", "r", "c", "=", "'", "a", "'", ">">>

ImgUpper == <<"<", "I", "M", "G", " ", "S", "R", "C", "=", "\"", "a", "\"", ">">>

ImgUnquoted == <<"<", "i", "m", "g", " ", "s", "r", "c", "=", "a", ">">>

Sound == <<"[", "s", "o", "u", "n", "d", ":", "a", "]">>

Video == <<"<", "v", "i", "d", "e", "o", " ", "s", "r", "c", "=", "\"", "a", "\"", ">", "<", "/", "v", "i", "d", "e", "o", ">">>

Audio == <<"<", "a", "u", "d", "i", "o", ">", "a", "<", "/", "a", "u", "d", "i", "o", ">">>

ObjectElement == <<"<", "o", "b", "j", "e", "c", "t", ">", "<", "/", "o", "b", "j", "e", "c", "t", ">">>

EmbedElement == <<"<", "e", "m", "b", "e", "d", ">", "<", "/", "e", "m", "b", "e", "d", ">">>

EmbedVoid == <<"<", "e", "m", "b", "e", "d", " ", "s", "r", "c", "=", "\"", "a", "\"", ">">>

MediaTexts ==
    {ImgDouble, ImgSingle, ImgUpper, ImgUnquoted, Sound, Video, Audio,
     ObjectElement, EmbedElement, EmbedVoid}

\* Values a location can hold besides its usual one: text with a medium, the
\* empty string, markup without a medium.
TextContents == MediaTexts \cup {<<>>, <<"<", "b", ">">>}

\* A template or the CSS comes from JSON and can be a number as well.
JsonContents == TextContents \cup {NotAString}

Locations == {"front", "back", "css", "field1", "field2"}

FieldLocations == {"field1", "field2"}

\* The usual value of every location: a deck without any medium.
Base ==
    [front |-> FieldA, back |-> BackWithFrontSide, css |-> <<"c">>,
     field1 |-> <<"x">>, field2 |-> <<"y">>]

\* Base with the locations of S overwritten.
Assignments ==
    UNION {{[l \in Locations |-> IF l \in S THEN c[l] ELSE Base[l]] :
               c \in {d \in [S -> JsonContents] :
                        \A l \in S \cap FieldLocations : d[l] # NotAString}} :
           S \in {T \in SUBSET Locations : Cardinality(T) <= MaxMediaLocations}}

\* The columns of col, notes and cards that the parser asks for.
AllColumns ==
    [col |-> {"decks", "models", "conf"}, notes |-> NoteColumns,
     cards |-> CardColumns]

DeckOf(a) ==
    [opens |-> "always",
     tables |-> AnkiTables,
     decks |-> [valid |-> TRUE, value |-> <<[id |-> 1, name |-> "Default"]>>],
     models |-> [valid |-> TRUE,
                 value |-> <<[id |-> 1, name |-> "Basic", flds |-> TwoFields,
                              tmpls |-> <<[name |-> "Card 1", qfmt |-> a.front,
                                           afmt |-> a.back]>>,
                              css |-> a.css]>>],
     notes |-> <<[id |-> 1, mid |-> 1, did |-> 1,
                  flds |-> a.field1 \o <<UnitSeparator>> \o a.field2]>>,
     cards |-> <<[id |-> 1, nid |-> 1, ord |-> 0, did |-> 1, queue |-> 0]>>,
     columns |-> AllColumns,
     faults |-> {}]

CleanDeck == DeckOf(Base)

\* The same deck with a models column that is not JSON.
BrokenModels(deck) == [deck EXCEPT !.models = [valid |-> FALSE, value |-> <<>>]]

\* The same deck with a second card whose note does not exist.
WithOrphan(deck) ==
    [deck EXCEPT !.cards = @ \o <<[id |-> 2, nid |-> 2, ord |-> 0, did |-> 1,
                                    queue |-> 2]>>]

\* The same deck with a decks column that is not JSON.
BrokenDecks(deck) == [deck EXCEPT !.decks = [valid |-> FALSE, value |-> <<>>]]

\* Two notes, the second one without a deck, and three cards.
TwoNotes ==
    [CleanDeck EXCEPT
        !.notes = @ \o <<[id |-> 2, mid |-> 1, did |-> 0,
                          flds |-> <<"p", UnitSeparator, "q">>]>>,
        !.cards = @ \o <<[id |-> 2, nid |-> 2, ord |-> 0, did |-> 0, queue |-> 7],
                          [id |-> 3, nid |-> 2, ord |-> 1, did |-> 2, queue |-> 7]>>]

\* The tables of the collection with some of their columns missing.
ColumnSets ==
    {[col |-> AllColumns.col \ c, notes |-> NoteColumns \ n,
      cards |-> CardColumns \ k] :
        c \in SUBSET {"decks", "models", "conf"},
        n \in SUBSET {"id", "mid", "did"},
        k \in SUBSET {"nid", "did", "queue"}}

ColumnDecks == {[TwoNotes EXCEPT !.columns = c] : c \in ColumnSets}

QueueValues == {-12, -4, -3, -2, -1, 0, 1, 2, 3, 7, 10}

\* One card of every queue value, in a table with and without the column.
QueueDecks ==
    {[CleanDeck EXCEPT
         !.cards = <<[id |-> 1, nid |-> 1, ord |-> 0, did |-> 1, queue |-> q]>>,
         !.columns.cards = cols] :
        q \in QueueValues, cols \in {CardColumns, CardColumns \ {"queue"}}}

MaxFieldParts == 3

FieldB == <<"{","{","B","}","}">>

\* A front template that shows both fields of the note.
BothFields == FieldA \o <<"|">> \o FieldB

\* What the flds column of a note is made of: blanks, a letter, separators.
FieldParts == << <<" ">>, <<"a">>, <<UnitSeparator>>, <<"\n">> >>

\* One note whose flds column is any such text, shown with both fields.
FieldDecks ==
    {[CleanDeck EXCEPT !.models.value[1].tmpls[1].qfmt = BothFields,
                       !.notes[1].flds = f] :
        f \in Texts(FieldParts, MaxFieldParts)}

\* Three notes in any of the decks 1 and 2 or in none (did = 0), and three
\* cards of the notes 1 and 2 or of a note 9 that does not exist, in the order
\* of the query (ORDER BY nid, ord).
RelationDecks ==
    {[CleanDeck EXCEPT
         !.notes = [k \in 1..3 |-> [id |-> k, mid |-> 1, did |-> dids[k],
                                    flds |-> <<"x", UnitSeparator, "y">>]],
         !.cards = [k \in 1..3 |-> [id |-> k, nid |-> nids[k], ord |-> k - 1,
                                    did |-> 1, queue |-> 0]]] :
        dids \in [1..3 -> {0, 1, 2}],
        nids \in {n \in [1..3 -> {1, 2, 9}] : n[1] <= n[2] /\ n[2] <= n[3]}}

\* Decks in which the engine throws in some queries of getDeckStatistics.
FaultDecks ==
    {[deck EXCEPT !.faults = failing] :
        deck \in {CleanDeck, TwoNotes, WithOrphan(CleanDeck)},
        failing \in SUBSET StatisticsQueries}

\* An image tag that takes its source from the first field.
ImgOfField == <<"<", "i", "m", "g", " ", "s", "r", "c", "=">> \o FieldA \o <<">">>

\* Decks whose template and fields hold parts of a tag: a quoted file name, a
\* tag without its end, the end of a tag.
ComposedDecks ==
    {DeckOf([Base EXCEPT !.front = f, !.field1 = a, !.field2 = b]) :
        f \in {ImgOfField, BothFields, FieldA \o FieldB},
        a \in {<<"'", "a", ".", "p", "n", "g", "'">>, <<"<", "i", "m", "g", " ", "s", "r", "c", "=", "'", "a", ".", "p", "n", "g", "'">>, <<"x">>},
        b \in {<<">">>, <<"y">>}}

ParseDecks ==
    {DeckOf(a) : a \in Assignments}
    \cup ComposedDecks
    \cup FaultDecks
    \cup RelationDecks
    \cup FieldDecks
    \cup {BrokenModels(DeckOf(a)) :
            a \in {d \in Assignments : \A l \in Locations \ FieldLocations :
                                          d[l] = Base[l]}}
    \cup {BrokenDecks(DeckOf(a)) :
            a \in {d \in Assignments :
                     Cardinality({l \in Locations : d[l] # Base[l]}) <= 1}}
    \cup {BrokenDecks(BrokenModels(TwoNotes))}
    \cup ColumnDecks
    \cup QueueDecks

ImportDecks ==
    {CleanDeck,
     WithOrphan(CleanDeck),
     BrokenModels(CleanDeck),
     DeckOf([Base EXCEPT !.field1 = Sound]),
     DeckOf([Base EXCEPT !.front = ImgDouble]),
     DeckOf([Base EXCEPT !.field2 = ImgUnquoted]),
     DeckOf([Base EXCEPT !.css = NotAString]),
     DeckOf([Base EXCEPT !.back = NotAString, !.field1 = Video])}

-----------------------------------------------------------------------------
(* Archives *)

MaxEntries == 3

CollectionAnki2 == <<"c", "o", "l", "l", "e", "c", "t", "i", "o", "n", ".", "a", "n", "k", "i", "2">>

CollectionAnki21 == <<"c", "o", "l", "l", "e", "c", "t", "i", "o", "n", ".", "a", "n", "k", "i", "2", "1">>

APng == <<"a", ".", "p", "n", "g">>

BPng == <<"b", ".", "p", "n", "g">>

EntryNames ==
    {CollectionAnki2,
     <<"c", "o", "l", "l", "e", "c", "t", "i", "o", "n", ".", "a", "n", "k", "i", "2", "1", "b">>,
     <<"c", "o", "l", "l", "e", "c", "t", "i", "o", "n", ".", "o", "l", "d", ".", "a", "n", "k", "i", "2">>,
     <<"c", "o", "l", "l", "e", "c", "t", "i", "o", "n", ".", "a", "n", "k", "i", "3">>,
     <<"C", "o", "l", "l", "e", "c", "t", "i", "o", "n", ".", "a", "n", "k", "i", "2">>,
     MediaName,
     MetaName,
     APng,
     <<"i", "m", "g", "/">>}

\* The bytes of a database file SQLite reads: the header and what follows it.
GoodBytes == sqliteHeader \o <<4>>

\* A file that is no SQLite database: the first bytes of a zip.
ZipBytes == <<80, 75>>

ByteValues == {0, 1, 255}

Buffers ==
    {Take(sqliteHeader, n) : n \in 0..Len(sqliteHeader)}
    \cup {sqliteHeader \o <<b>> : b \in ByteValues}
    \cup {[GoodBytes EXCEPT ![k] = b] : k \in 1..Len(sqliteHeader), b \in ByteValues}
    \cup {ZipBytes}

Entry(name, data) == [name |-> name, dir |-> FALSE, data |-> data]

\* JSZip names a folder with a trailing slash and flags it dir.
EntryFor(name) ==
    IF EndsWith(name, <<"/">>) THEN [name |-> name, dir |-> TRUE, data |-> <<>>]
    ELSE Entry(name, IF IsDatabaseFile(name) THEN GoodBytes ELSE <<>>)

EmptyManifest == [kind |-> "object", keys |-> <<>>, values |-> <<>>]

\* The archive stores the media files under numbers: "0", "1".
ZeroName == <<"0">>

OneName == <<"1">>

\* keys are the names of the files in the archive, values the names the notes
\* use: {"0": "a.png"}.
Manifests ==
    {EmptyManifest,
     [kind |-> "object", keys |-> <<ZeroName>>, values |-> <<APng>>],
     [kind |-> "object", keys |-> <<ZeroName>>, values |-> <<<<"z", ".", "p", "n", "g">>>>],
     [kind |-> "object", keys |-> <<ZeroName, OneName>>, values |-> <<APng, BPng>>],
     [kind |-> "array", keys |-> <<ZeroName>>, values |-> <<APng>>],
     [kind |-> "array", keys |-> <<>>, values |-> <<>>],
     [kind |-> "malformed", keys |-> <<>>, values |-> <<>>],
     [kind |-> "binary", keys |-> <<>>, values |-> <<>>]}

Archive(files, manifest, db) ==
    [zip |-> TRUE, files |-> files, manifest |-> manifest, db |-> db]

StandardFiles(bytes) == <<Entry(CollectionAnki2, bytes), Entry(MediaName, <<>>)>>

\* Every choice and order of up to MaxEntries distinct entries.
EntryArchives ==
    {Archive([k \in 1..Len(s) |-> EntryFor(s[k])], EmptyManifest, CleanDeck) :
        s \in UNION {{q \in [1..n -> EntryNames] :
                        \A i, j \in 1..n : i # j => q[i] # q[j]} :
                     n \in 0..MaxEntries}}

\* Every manifest, with and without the files it names and the database.
ManifestArchives ==
    {Archive(files, manifest, CleanDeck) :
        files \in {StandardFiles(GoodBytes),
                   StandardFiles(GoodBytes) \o <<Entry(APng, <<>>)>>,
                   <<Entry(APng, <<>>), Entry(MediaName, <<>>),
                     Entry(CollectionAnki2, GoodBytes), Entry(BPng, <<>>)>>,
                   <<Entry(MediaName, <<>>)>>,
                   <<Entry(MediaName, <<>>), Entry(APng, <<>>)>>,
                   StandardFiles(GoodBytes) \o <<Entry(ZeroName, <<>>)>>,
                   <<Entry(ZeroName, <<>>), Entry(APng, <<>>)>>
                   \o StandardFiles(GoodBytes) \o <<Entry(OneName, <<>>)>>},
        manifest \in Manifests}

\* Every content of the database entry, and two database entries of which
\* only one is a database.
HeaderArchives ==
    {Archive(StandardFiles(bytes), EmptyManifest, CleanDeck) : bytes \in Buffers}
    \cup {Archive(<<Entry(CollectionAnki2, first), Entry(CollectionAnki21, second),
                    Entry(MediaName, <<>>)>>, EmptyManifest, CleanDeck) :
            first \in {GoodBytes, ZipBytes}, second \in {GoodBytes, ZipBytes}}
    \cup {Archive(<<Entry(CollectionAnki2, bytes)>>, EmptyManifest, CleanDeck) :
            bytes \in {<<>>, ZipBytes}}

\* Every set of tables, in a file sql.js opens or does not open.
EngineArchives ==
    {Archive(StandardFiles(GoodBytes), EmptyManifest,
             [CleanDeck EXCEPT !.opens = opens, !.tables = tables]) :
        opens \in {"always", "once", "never"},
        tables \in SUBSET {"cards", "notes", "col", "revlog"}}

DeckArchives ==
    {Archive(StandardFiles(GoodBytes), EmptyManifest, deck) : deck \in ImportDecks}

NotAZip == [zip |-> FALSE, files |-> <<>>, manifest |-> EmptyManifest, db |-> CleanDeck]

Archives ==
    EntryArchives \cup ManifestArchives \cup HeaderArchives \cup EngineArchives
    \cup DeckArchives \cup {NotAZip}

-----------------------------------------------------------------------------
(* The state before anything has run *)

NoResult == [content |-> <<>>, mediaFound |-> <<>>]

\* No card is being previewed.
RenderIdle ==
    /\ template = [front |-> <<>>, back |-> <<>>]
    /\ fields = <<>>
    /\ fieldNames = <<>>
    /\ frontResult = NoResult
    /\ backResult = NoResult
    /\ rpc = "idle"

\* No import of the session has begun, sql.js has not been asked for.
SessionIdle ==
    /\ imports = <<>>
    /\ loader = [state |-> "none", scripts |-> 0, inits |-> 0, global |-> FALSE]
    /\ online = TRUE

\* The engine runs the statement to its end.
NoFault == [at |-> "none", k |-> 0]

\* executeQuery is not running.
QueryIdle ==
    /\ query = [rows |-> <<>>, fault |-> NoFault]
    /\ statement = "none"
    /\ queryResult = <<>>

Pages == {"DeckImportPage", "DatabaseTest"}

\* The module-level state of sqlScriptLoader and the useState initial values
\* of the two pages.
ImportIdle ==
    /\ databaseFile = <<>>
    /\ validation = <<>>
    /\ SQL = FALSE
    /\ loadingPromise = "null"
    /\ handles = <<>>
    /\ dbResult = <<>>
    /\ parsedData = <<>>
    /\ deckData = <<>>
    /\ allCards = <<>>
    /\ parseError = <<>>
    /\ mediaDetails = <<>>
    /\ testStatus = ""
    /\ events = <<>>

-----------------------------------------------------------------------------
(* SpecRender: the preview of one card *)

InitRender ==
    /\ \E in \in PreviewInputs :
          /\ template = [front |-> in.front, back |-> in.back]
          /\ fields = in.flds
          /\ fieldNames = in.names
    /\ frontResult = NoResult
    /\ backResult = NoResult
    /\ rpc = "start"
    /\ ImportIdle
    /\ SessionIdle
    /\ QueryIdle
    /\ file = NotAZip
    /\ page = "DeckImportPage"
    /\ pc = "idle"
    /\ loading = FALSE
    /\ databaseInfo = <<>>

\* const frontResult = processAnkiTemplate(template.front, note.fields, noteType.fields)
RenderFront ==
    /\ rpc = "start"
    /\ frontResult' = processAnkiTemplate(template.front, fields, fieldNames, <<>>)
    /\ rpc' = "front"
    /\ UNCHANGED <<template, fields, fieldNames, backResult, importVars, sessionVars,
                   queryVars>>

\* const backResult = processAnkiTemplate(template.back, note.fields,
\*                                        noteType.fields, frontResult.content)
RenderBack ==
    /\ rpc = "front"
    /\ backResult' = processAnkiTemplate(template.back, fields, fieldNames,
                                         frontResult.content)
    /\ rpc' = "back"
    /\ UNCHANGED <<template, fields, fieldNames, frontResult, importVars, sessionVars,
                   queryVars>>

NextRender == RenderFront \/ RenderBack

SpecRender == InitRender /\ [][NextRender]_vars

-----------------------------------------------------------------------------
(* Spec: one import, from the selected file to the page state *)

Init ==
    /\ RenderIdle
    /\ ImportIdle
    /\ SessionIdle
    /\ QueryIdle
    /\ file \in Archives
    /\ page \in Pages
    /\ pc = "start"
    /\ loading = (page = "DeckImportPage")
    /\ databaseInfo = <<>>

\* new SQL.Database(uint8Array) has made the handle.
Opened(handle) == [op |-> "open", handle |-> handle]

\* executeQuery(db, ...) on the handle, once or several times in a row.
Queried(handle) == [op |-> "query", handle |-> handle]

\* db.close() on the handle.
Closed(handle) == [op |-> "close", handle |-> handle]

\* A handle that is closed first and read afterwards.
CloseThenQuery(handle) == <<Closed(handle), Queried(handle)>>

\* The queries of a function and the db.close() that follows them.
QueryThenClose(handle) == <<Queried(handle), Closed(handle)>>

\* What a step of validateApkgFile leaves alone.
pageState == <<deckData, allCards, parseError, mediaDetails, loading, testStatus,
               databaseInfo>>

\* return { isValid: false, error }
Fail(error) ==
    /\ validation' = <<Invalid(error)>>
    /\ pc' = "validated"

\* loadAndParseDeck: setLoading(true); setParseError(null); setMediaDetails(null)
\* handleFileSelect: setIsLoading(true); setTestStatus(...); setDatabaseInfo(null)
StartImport ==
    /\ pc = "start"
    /\ loading' = TRUE
    /\ IF page = "DeckImportPage"
       THEN /\ parseError' = <<>>
            /\ mediaDetails' = <<>>
            /\ UNCHANGED <<testStatus, databaseInfo>>
       ELSE /\ testStatus' = "Validating .apkg file..."
            /\ databaseInfo' = <<>>
            /\ UNCHANGED <<parseError, mediaDetails>>
    /\ pc' = "loadAsync"
    /\ UNCHANGED <<renderVars, sessionVars, queryVars, events,
                   file, page, databaseFile, validation, SQL,
                   loadingPromise, handles, dbResult, parsedData, deckData, allCards>>

\* Step 1: zip.loadAsync(file); a file that is no zip throws to the outer catch.
LoadZip ==
    /\ pc = "loadAsync"
    /\ IF file.zip
       THEN pc' = "findDatabase" /\ UNCHANGED validation
       ELSE Fail([kind |-> "FileValidationFailed"])
    /\ UNCHANGED <<renderVars, sessionVars, queryVars, events,
                   file, page, databaseFile, SQL, loadingPromise,
                   handles, dbResult, parsedData, pageState>>

\* Step 2, first half: the collection database.
FindDatabase ==
    /\ pc = "findDatabase"
    /\ databaseFile' = FindDatabaseFile(file)
    /\ IF FindDatabaseFile(file) = <<>>
       THEN Fail([kind |-> "MissingDatabase"])
       ELSE pc' = "checkMedia" /\ UNCHANGED validation
    /\ UNCHANGED <<renderVars, sessionVars, queryVars, events,
                   file, page, SQL, loadingPromise, handles, dbResult,
                   parsedData, pageState>>

\* Step 2, second half: the media entry.
CheckMediaEntry ==
    /\ pc = "checkMedia"
    /\ IF ~hasMedia(file)
       THEN Fail([kind |-> "MissingMedia"])
       ELSE pc' = "checkFiles" /\ UNCHANGED validation
    /\ UNCHANGED <<renderVars, sessionVars, queryVars, events,
                   file, page, databaseFile, SQL, loadingPromise,
                   handles, dbResult, parsedData, pageState>>

\* Step 3: files of the archive that the manifest references.
CheckMediaFiles ==
    /\ pc = "checkFiles"
    /\ LET used == actuallyUsedMedia(file)
       IN  IF potentialMediaFiles(file) # <<>> /\ used # <<>>
           THEN Fail([kind |-> "ReferencedMedia", count |-> Len(used),
                      names |-> Take(used, Min(Len(used), 3))])
           ELSE pc' = "checkManifest" /\ UNCHANGED validation
    /\ UNCHANGED <<renderVars, sessionVars, queryVars, events,
                   file, page, databaseFile, SQL, loadingPromise,
                   handles, dbResult, parsedData, pageState>>

\* Step 4: the manifest has to be empty.
CheckManifest ==
    /\ pc = "checkManifest"
    /\ IF mediaEntries(file.manifest) # <<>>
       THEN Fail([kind |-> "ManifestMedia",
                  count |-> Len(mediaEntries(file.manifest))])
       ELSE pc' = "extract" /\ UNCHANGED validation
    /\ UNCHANGED <<renderVars, sessionVars, queryVars, events,
                   file, page, databaseFile, SQL, loadingPromise,
                   handles, dbResult, parsedData, pageState>>

\* Step 5: the bytes of the database entry.
ExtractDatabase ==
    /\ pc = "extract"
    /\ IF dbContentOf(file, databaseFile[1]) = <<>>
       THEN Fail([kind |-> "EmptyDatabase"])
       ELSE pc' = "header" /\ UNCHANGED validation
    /\ UNCHANGED <<renderVars, sessionVars, queryVars, events,
                   file, page, databaseFile, SQL, loadingPromise,
                   handles, dbResult, parsedData, pageState>>

\* Step 6: the SQLite header.
CheckHeader ==
    /\ pc = "header"
    /\ IF ~isValidSQLite(dbContentOf(file, databaseFile[1]))
       THEN Fail([kind |-> "InvalidHeader"])
       ELSE pc' = "open" /\ UNCHANGED validation
    /\ UNCHANGED <<renderVars, sessionVars, queryVars, events,
                   file, page, databaseFile, SQL, loadingPromise,
                   handles, dbResult, parsedData, pageState>>

\* Step 7, first half: await initializeSqlJs(); const db = loadDatabase(dbContent)
OpenDatabase ==
    /\ pc = "open"
    /\ \E loads \in BOOLEAN :
          LET init == initializeSqlJs(SQL, loadingPromise, loads)
              outcome == loadDatabase(init.SQL, file.db, Len(handles))
          IN  /\ SQL' = init.SQL
              /\ loadingPromise' = init.loadingPromise
              /\ IF outcome = "throws"
                 THEN /\ Fail([kind |-> "DatabaseValidationFailed"])
                      /\ UNCHANGED <<handles, events>>
                 ELSE IF outcome = "null"
                 THEN /\ Fail([kind |-> "NotLoaded"])
                      /\ UNCHANGED <<handles, events>>
                 ELSE /\ handles' = Append(handles, [owner |-> "validateApkgFile",
                                                     open |-> TRUE])
                      /\ events' = Append(events, Opened(Len(handles) + 1))
                      /\ pc' = "tables"
                      /\ UNCHANGED validation
    /\ UNCHANGED <<renderVars, sessionVars, queryVars,
                   file, page, databaseFile, dbResult, parsedData,
                   pageState>>

\* Step 7, second half: the tables of an Anki collection, db.close() on both
\* paths, and the result of a validation that passed every check.
CheckTables ==
    /\ pc = "tables"
    /\ LET dbContent == dbContentOf(file, databaseFile[1])
           missing == missingTables(getTableNames(dbContent, file.db))
       IN  /\ handles' = [handles EXCEPT ![Len(handles)].open = FALSE]
           /\ events' = events \o QueryThenClose(Len(handles))
           /\ IF missing # <<>>
              THEN Fail([kind |-> "MissingTables", missing |-> missing])
              ELSE /\ validation' = <<[isValid |-> TRUE,
                                       databaseBuffer |-> dbContent,
                                       fileCount |-> Len(file.files),
                                       databaseSize |-> Len(dbContent)]>>
                   /\ pc' = "validated"
    /\ UNCHANGED <<renderVars, sessionVars, queryVars,
                   file, page, databaseFile, SQL, loadingPromise,
                   dbResult, parsedData, pageState>>

\* if (!validation.isValid): the import page throws to its catch, the test page
\* reports and returns.
ValidationFailed ==
    /\ pc = "validated"
    /\ ~validation[1].isValid
    /\ IF page = "DeckImportPage"
       THEN /\ parseError' = <<[kind |-> "ValidationFailed",
                                cause |-> validation[1].error]>>
            /\ UNCHANGED testStatus
       ELSE /\ testStatus' = "Validation failed"
            /\ UNCHANGED parseError
    /\ loading' = FALSE
    /\ pc' = "done"
    /\ UNCHANGED <<renderVars, sessionVars, queryVars, events,
                   file, page, databaseFile, validation, SQL,
                   loadingPromise, handles, dbResult, parsedData, deckData, allCards,
                   mediaDetails, databaseInfo>>

\* const dbResult = await loadAnkiDatabase(validation.databaseBuffer), and the
\* check of dbResult.success that follows it on either page.
LoadAnkiDatabase ==
    /\ pc = "validated"
    /\ validation[1].isValid
    /\ \E loads \in BOOLEAN :
          LET init == initializeSqlJs(SQL, loadingPromise, loads)
              outcome == loadDatabase(init.SQL, file.db, Len(handles))
          IN  /\ SQL' = init.SQL
              /\ loadingPromise' = init.loadingPromise
              /\ IF outcome = "db"
                 THEN /\ handles' = Append(handles, [owner |-> "loadAnkiDatabase",
                                                     open |-> TRUE])
                      /\ events' = Append(events, Opened(Len(handles) + 1))
                      /\ dbResult' = <<[success |-> TRUE,
                                        database |-> Len(handles) + 1]>>
                      /\ pc' = "loaded"
                      /\ UNCHANGED <<parseError, testStatus, loading>>
                 ELSE /\ dbResult' = <<[success |-> FALSE,
                                        error |-> [kind |-> outcome]]>>
                      /\ IF page = "DeckImportPage"
                         THEN /\ parseError' = <<[kind |-> "DatabaseLoadingFailed",
                                                  cause |-> [kind |-> outcome]]>>
                              /\ UNCHANGED testStatus
                         ELSE /\ testStatus' = "Database loading failed"
                              /\ UNCHANGED parseError
                      /\ loading' = FALSE
                      /\ pc' = "done"
                      /\ UNCHANGED <<handles, events>>
    /\ UNCHANGED <<renderVars, sessionVars, queryVars,
                   file, page, databaseFile, validation, parsedData,
                   deckData, allCards, mediaDetails, databaseInfo>>

\* loadAndParseDeck after parseFullDeck has returned result.
ShowDeck(result) ==
    /\ parsedData' = <<result>>
    /\ IF ~result.success
       THEN /\ mediaDetails' = IF "mediaDetails" \in DOMAIN result
                               THEN <<result.mediaDetails>> ELSE <<>>
            /\ parseError' = <<result.error>>
            /\ events' = Append(events, Queried(dbResult[1].database))
            /\ UNCHANGED <<deckData, allCards, handles>>
       ELSE /\ allCards' = getCardPreviews(result.notes, result.cards,
                                           result.noteTypes,
                                           result.statistics.totalCards)
            /\ deckData' = <<result>>
            /\ handles' = [handles EXCEPT ![dbResult[1].database].open = FALSE]
            /\ events' = events \o QueryThenClose(dbResult[1].database)
            /\ UNCHANGED <<parseError, mediaDetails>>
    /\ loading' = FALSE

\* loadAndParseDeck from parseFullDeck to the end: no await in between.
ParseDeck ==
    /\ pc = "loaded"
    /\ page = "DeckImportPage"
    /\ ShowDeck(parseFullDeck(QueryView(validation[1].databaseBuffer, file.db)))
    /\ pc' = "done"
    /\ UNCHANGED <<renderVars, sessionVars, queryVars,
                   file, page, databaseFile, validation, SQL,
                   loadingPromise, dbResult, testStatus, databaseInfo>>

\* handleFileSelect, step 3: the analysis queries, db.close(), setDatabaseInfo.
AnalyzeDatabase ==
    /\ pc = "loaded"
    /\ page = "DatabaseTest"
    /\ LET db == QueryView(validation[1].databaseBuffer, file.db)
           Orphaned(card) == \A k \in 1..Len(db.notes) : db.notes[k].id # card.nid
       IN  databaseInfo' = <<[tables |-> getTableNames(validation[1].databaseBuffer,
                                                       file.db),
                              cardCount |-> Len(db.cards),
                              noteCount |-> Len(db.notes),
                              orphanedCards |-> Len(SelectSeq(db.cards, Orphaned))]>>
    /\ handles' = [handles EXCEPT ![dbResult[1].database].open = FALSE]
    /\ events' = events \o QueryThenClose(dbResult[1].database)
    /\ testStatus' = "Database loaded and analyzed successfully!"
    /\ loading' = FALSE
    /\ pc' = "done"
    /\ UNCHANGED <<renderVars, sessionVars, queryVars,
                   file, page, databaseFile, validation, SQL,
                   loadingPromise, dbResult, parsedData, deckData, allCards,
                   parseError, mediaDetails>>

Next ==
    \/ StartImport
    \/ LoadZip
    \/ FindDatabase
    \/ CheckMediaEntry
    \/ CheckMediaFiles
    \/ CheckManifest
    \/ ExtractDatabase
    \/ CheckHeader
    \/ OpenDatabase
    \/ CheckTables
    \/ ValidationFailed
    \/ LoadAnkiDatabase
    \/ ParseDeck
    \/ AnalyzeDatabase

Spec == Init /\ [][Next]_vars

-----------------------------------------------------------------------------
(* SpecParse: parseFullDeck and the previews, on every deck of ParseDecks,   *)
(* from the state in which loadAnkiDatabase has returned its handle          *)

InitParse ==
    /\ RenderIdle
    /\ \E deck \in ParseDecks :
          file = Archive(StandardFiles(GoodBytes), EmptyManifest, deck)
    /\ page = "DeckImportPage"
    /\ pc = "loaded"
    /\ databaseFile = <<CollectionAnki2>>
    /\ validation = <<[isValid |-> TRUE, databaseBuffer |-> GoodBytes,
                       fileCount |-> Len(StandardFiles(GoodBytes)),
                       databaseSize |-> Len(GoodBytes)]>>
    /\ SQL = TRUE
    /\ loadingPromise = "true"
    /\ handles = <<[owner |-> "validateApkgFile", open |-> FALSE],
                   [owner |-> "loadAnkiDatabase", open |-> TRUE]>>
    /\ dbResult = <<[success |-> TRUE, database |-> 2]>>
    /\ events = <<Opened(1)>> \o QueryThenClose(1) \o <<Opened(2)>>
    /\ SessionIdle
    /\ QueryIdle
    /\ parsedData = <<>>
    /\ deckData = <<>>
    /\ allCards = <<>>
    /\ parseError = <<>>
    /\ mediaDetails = <<>>
    /\ loading = TRUE
    /\ testStatus = ""
    /\ databaseInfo = <<>>

NextParse == ParseDeck

SpecParse == InitParse /\ [][NextParse]_vars


-----------------------------------------------------------------------------
(* SpecSession: several calls of validateApkgFile in one page session. They  *)
(* share SQL and loadingPromise of sqlScriptLoader and take their turns at   *)
(* the await of initializeSqlJs and at the events of the script element      *)

MaxImports == 3

\* The files of the session: a deck that validates, a file that is no zip and
\* a database without the notes and col tables.
SessionArchives ==
    {Archive(StandardFiles(GoodBytes), EmptyManifest, CleanDeck),
     NotAZip,
     Archive(StandardFiles(GoodBytes), EmptyManifest,
             [CleanDeck EXCEPT !.tables = {"cards"}])}

\* window.initSqlJs may be there before any load (a script of the page).
InitSession ==
    /\ RenderIdle
    /\ ImportIdle
    /\ QueryIdle
    /\ file = NotAZip
    /\ page = "DeckImportPage"
    /\ pc = "idle"
    /\ loading = FALSE
    /\ databaseInfo = <<>>
    /\ imports = <<>>
    /\ \E global \in BOOLEAN :
          loader = [state |-> "none", scripts |-> 0, inits |-> 0, global |-> global]
    /\ online \in BOOLEAN

\* What the session leaves alone: the single import and the single query.
sessionFrame ==
    <<renderVars, queryVars, file, page, pc, databaseFile, validation, dbResult,
      parsedData, deckData, allCards, parseError, mediaDetails, loading,
      testStatus, databaseInfo>>

\* A load that starts whenever SQL is not set, whatever loadingPromise is.
MustLoadWheneverUnset(sql, promise) == ~sql

\* initializeSqlJs gets past its two early returns and starts the load.
MustLoad(sql, promise) == ~sql /\ promise = "null"

\* The executor of the promise: window.initSqlJs is called at once if it is
\* there, else the script element is appended to document.head.
StartLoad(l) ==
    IF l.global THEN [l EXCEPT !.state = "engine", !.inits = @ + 1]
    ELSE [l EXCEPT !.state = "script", !.scripts = @ + 1]

\* An import in its state after the call of initializeSqlJs.
Awaiting(archive, waits) ==
    [archive |-> archive, pc |-> "awaiting", online |-> online, waits |-> waits,
     initResult |-> <<>>, validation |-> <<>>]

\* validateApkgFile from its first line to await initializeSqlJs(): the steps
\* 1 to 6 read the archive only; the call returns true at once, or waits for
\* the promise of a load that has begun, or begins the load.
BeginImport ==
    /\ Len(imports) < MaxImports
    /\ \E archive \in SessionArchives :
          IF GateError(archive, FindDatabaseFile(archive)) # <<>>
          THEN /\ imports' = Append(imports,
                      [archive |-> archive, pc |-> "done", online |-> online,
                       waits |-> "nothing", initResult |-> <<>>,
                       validation |->
                          <<Invalid(GateError(archive,
                                              FindDatabaseFile(archive))[1])>>])
               /\ UNCHANGED <<loader, loadingPromise>>
          ELSE IF SQL
          THEN /\ imports' = Append(imports, Awaiting(archive, "true"))
               /\ UNCHANGED <<loader, loadingPromise>>
          ELSE IF MustLoad(SQL, loadingPromise)
          THEN /\ loader' = StartLoad(loader)
               /\ loadingPromise' = "pending"
               /\ imports' = Append(imports, Awaiting(archive, "promise"))
          ELSE /\ imports' = Append(imports, Awaiting(archive, "promise"))
               /\ UNCHANGED <<loader, loadingPromise>>
    /\ UNCHANGED <<sessionFrame, SQL, handles, events, online>>

\* script.onload: window.initSqlJs is called.
ScriptLoaded ==
    /\ loader.state = "script"
    /\ online
    /\ loader' = [loader EXCEPT !.state = "engine", !.inits = @ + 1]
    /\ UNCHANGED <<sessionFrame, SQL, loadingPromise, handles, events, imports,
                   online>>

\* script.onerror: resolve(false)
ScriptFailed ==
    /\ loader.state = "script"
    /\ ~online
    /\ loader' = [loader EXCEPT !.state = "failed"]
    /\ loadingPromise' = "false"
    /\ UNCHANGED <<sessionFrame, SQL, handles, events, imports, online>>

\* SQL = await window.initSqlJs(...); resolve(true)
EngineReady ==
    /\ loader.state = "engine"
    /\ online
    /\ SQL' = TRUE
    /\ loader' = [loader EXCEPT !.state = "ready"]
    /\ loadingPromise' = "true"
    /\ UNCHANGED <<sessionFrame, handles, events, imports, online>>

\* window.initSqlJs rejects: the catch around it does resolve(false).
EngineFailed ==
    /\ loader.state = "engine"
    /\ ~online
    /\ loader' = [loader EXCEPT !.state = "failed"]
    /\ loadingPromise' = "false"
    /\ UNCHANGED <<sessionFrame, SQL, handles, events, imports, online>>

\* The rest of step 7 for the outcome of loadDatabase: the handle is opened,
\* read and closed before validateApkgFile returns.
Validated(i, initResult, outcome) ==
    /\ imports' = [imports EXCEPT
          ![i].pc = "done",
          ![i].initResult = <<initResult>>,
          ![i].validation =
             <<EngineResult(imports[i].archive,
                            dbContentOf(imports[i].archive,
                                        FindDatabaseFile(imports[i].archive)[1]),
                            outcome)>>]
    /\ IF outcome = "db"
       THEN /\ handles' = Append(handles, [owner |-> "validateApkgFile",
                                           open |-> FALSE])
            /\ events' = Append(events, Opened(Len(handles) + 1))
                             \o QueryThenClose(Len(handles) + 1)
       ELSE UNCHANGED <<handles, events>>

\* validateApkgFile after await initializeSqlJs(): the value of the call is
\* dropped, loadDatabase looks at SQL.
Resume(i) ==
    /\ imports[i].pc = "awaiting"
    /\ imports[i].waits = "true" \/ loadingPromise \in {"true", "false"}
    /\ Validated(i,
                 IF imports[i].waits = "true" THEN TRUE ELSE loadingPromise = "true",
                 loadDatabase(SQL, imports[i].archive.db, Len(handles)))
    /\ UNCHANGED <<sessionFrame, SQL, loadingPromise, loader, online>>

\* The network comes back.
Reconnect ==
    /\ ~online
    /\ online' = TRUE
    /\ UNCHANGED <<sessionFrame, SQL, loadingPromise, handles, events, imports,
                   loader>>

NextSession ==
    \/ BeginImport
    \/ ScriptLoaded
    \/ ScriptFailed
    \/ EngineReady
    \/ EngineFailed
    \/ \E i \in 1..Len(imports) : Resume(i)
    \/ Reconnect

SpecSession == InitSession /\ [][NextSession]_vars

-----------------------------------------------------------------------------
(* SpecQuery: one call of executeQuery. The statement has the rows          *)
(* query.rows; the engine throws in db.prepare, in the k-th stmt.step() or   *)
(* in the k-th stmt.getAsObject(), or not at all                             *)

MaxRows == 3

RowValues == {1, 2}

\* The places where the engine can throw while a statement of n rows is run;
\* the step after the last row is the one that answers false.
Faults(n) ==
    {NoFault, [at |-> "prepare", k |-> 0]}
    \cup {[at |-> "step", k |-> k] : k \in 1..(n + 1)}
    \cup {[at |-> "row", k |-> k] : k \in 1..n}

InitQuery ==
    /\ RenderIdle
    /\ ImportIdle
    /\ SessionIdle
    /\ file = NotAZip
    /\ page = "DeckImportPage"
    /\ pc = "idle"
    /\ loading = FALSE
    /\ databaseInfo = <<>>
    /\ \E n \in 0..MaxRows : \E rows \in [1..n -> RowValues] :
          \E fault \in Faults(n) : query = [rows |-> rows, fault |-> fault]
    /\ statement = "none"
    /\ queryResult = <<>>

\* executeQuery: db.prepare, the loop of stmt.step() and stmt.getAsObject(),
\* stmt.free() and return results; any throw goes to the catch, which returns
\* [] and frees nothing.
executeQuery(rows, fault) ==
    IF fault.at = "prepare" THEN [results |-> <<>>, statement |-> "none"]
    ELSE IF fault.at = "none" THEN [results |-> rows, statement |-> "freed"]
    ELSE [results |-> <<>>, statement |-> "prepared"]

ExecuteQuery ==
    /\ queryResult = <<>>
    /\ queryResult' = <<executeQuery(query.rows, query.fault).results>>
    /\ statement' = executeQuery(query.rows, query.fault).statement
    /\ UNCHANGED <<renderVars, importVars, sessionVars, query>>

NextQuery == ExecuteQuery

SpecQuery == InitQuery /\ [][NextQuery]_vars

-----------------------------------------------------------------------------
(* Claims about the validator and the import (Spec) *)

\* The 15 bytes of "SQLite format 3".
Magic == Take(sqliteHeader, ComparedBytes)

\* data starts with the 15 bytes of the magic string.
HasMagic(data) == Len(data) >= Len(Magic) /\ Take(data, Len(Magic)) = Magic

\* The entries of the archive that are recognised as the database.
DatabaseEntries(archive) ==
    LET Recognised(entry) == ~entry.dir /\ IsDatabaseFile(entry.name)
    IN  SelectSeq(archive.files, Recognised)

\* The manifest is JSON and has at least one entry.
ManifestHasEntries(archive) ==
    /\ archive.manifest.kind \in {"object", "array"}
    /\ archive.manifest.keys # <<>>

\* The archive is a zip with a media entry.
HasManifest(archive) ==
    /\ archive.zip
    /\ \E k \in 1..Len(archive.files) :
          archive.files[k].name = MediaName /\ ~archive.files[k].dir

\* The two media-not-supported errors of validateApkgFile.
IsMediaNotSupported(error) == error.kind \in {"ReferencedMedia", "ManifestMedia"}

\* On every success the buffer returned is non-empty and starts with the magic.
SuccessHasMagic ==
    (validation # <<>> /\ validation[1].isValid)
        => /\ validation[1].databaseBuffer # <<>>
           /\ HasMagic(validation[1].databaseBuffer)

C3_ManifestEntriesRejected ==
    (validation # <<>> /\ HasManifest(file) /\ ManifestHasEntries(file))
        => /\ ~validation[1].isValid
           /\ IsMediaNotSupported(validation[1].error)

\* C3, amended: whenever the archive has a recognised database entry and a
\* manifest that is JSON with at least one entry, the validation fails with a
\* media-not-supported error, whether or not the entries exist as files.
C3_ManifestEntriesRejectedAfterDatabase ==
    (/\ validation # <<>>
     /\ HasManifest(file)
     /\ ManifestHasEntries(file)
     /\ DatabaseEntries(file) # <<>>)
        => /\ ~validation[1].isValid
           /\ IsMediaNotSupported(validation[1].error)

\* C3 happens: a manifest with an entry that is no file of the archive was
\* rejected.
C3_Witness ==
    /\ validation # <<>>
    /\ ManifestHasEntries(file)
    /\ \A k \in 1..Len(file.files) :
          \A v \in 1..Len(file.manifest.values) :
              file.files[k].name # file.manifest.values[v]
    /\ ~validation[1].isValid
    /\ validation[1].error.kind = "ManifestMedia"

DeckKeys == {"deckInfo", "noteTypes", "notes", "cards", "statistics", "relationships"}

\* The import has ended in a failure of one of its stages.
ImportFailed ==
    /\ pc = "done"
    /\ \/ ~validation[1].isValid
       \/ (dbResult # <<>> /\ ~dbResult[1].success)
       \/ (parsedData # <<>> /\ ~parsedData[1].success)

\* C4: a failed validation, database loading or parseFullDeck carries none of
\* the parts of a deck, and after a failed import the page holds no deck, no
\* card preview and no database information.
C4_NoPartialDeck ==
    /\ (validation # <<>> /\ ~validation[1].isValid)
          => DOMAIN validation[1] \cap (DeckKeys \cup {"databaseBuffer"}) = {}
    /\ (dbResult # <<>> /\ ~dbResult[1].success)
          => DOMAIN dbResult[1] \cap (DeckKeys \cup {"database"}) = {}
    /\ (parsedData # <<>> /\ ~parsedData[1].success)
          => DOMAIN parsedData[1] \cap DeckKeys = {}
    /\ ImportFailed
          => /\ deckData = <<>>
             /\ allCards = <<>>
             /\ databaseInfo = <<>>
             /\ page = "DeckImportPage" => parseError # <<>>

\* C4 happens: parseFullDeck rejected a deck that has a card to preview.
C4_Witness ==
    /\ ImportFailed
    /\ parsedData # <<>>
    /\ ~parsedData[1].success
    /\ mediaDetails # <<>>
    /\ file.db.cards # <<>>

\* C5 as stated: when the import has ended, every handle it opened is closed.
C5_HandlesClosedOnExit ==
    pc = "done" => \A k \in 1..Len(handles) : ~handles[k].open

\* The archive passes every check that precedes the header check.
ReachesHeaderCheck(archive) ==
    /\ HasManifest(archive)
    /\ DatabaseEntries(archive) # <<>>
    /\ ~ManifestHasEntries(archive)
    /\ DatabaseEntries(archive)[1].data # <<>>

\* C10 as stated: a non-empty database entry that does not start with the 15
\* bytes of the magic string, shorter entries included, is rejected with the
\* invalid-header error.
C10_BadHeaderRejected ==
    (/\ validation # <<>>
     /\ ReachesHeaderCheck(file)
     /\ ~HasMagic(DatabaseEntries(file)[1].data))
        => /\ ~validation[1].isValid
           /\ validation[1].error.kind = "InvalidHeader"

\* The four names of the collection database: collection.anki2, .anki21,
\* .anki21b and .anki21c.
DatabaseNames ==
    {Take(CollectionPrefix, Len(CollectionPrefix) - 1) \o ext :
        ext \in DatabaseExtensions}

\* The entries of the archive that bear one of the four names.
NamedDatabaseEntries(archive) ==
    LET Named(entry) == entry.name \in DatabaseNames
    IN  SelectSeq(archive.files, Named)

\* C11 as stated: an archive is accepted only if exactly one entry bears one
\* of the four database names, an archive without such an entry is rejected
\* with the missing-database error, and no entry of another name is taken for
\* the database.
C11_ExactlyOneNamedDatabase ==
    (validation # <<>> /\ file.zip)
        => /\ validation[1].isValid => Len(NamedDatabaseEntries(file)) = 1
           /\ NamedDatabaseEntries(file) = <<>>
                 => /\ ~validation[1].isValid
                    /\ validation[1].error.kind = "MissingDatabase"
           /\ databaseFile # <<>> => databaseFile[1] \in DatabaseNames

\* The first min(15, length) bytes of data differ from the magic string.
HeaderMismatch(data) ==
    \E i \in 1..Min(Len(data), ComparedBytes) : data[i] # sqliteHeader[i]

\* The first gate of validateApkgFile the archive does not pass, in the order
\* archive, database, media, policy, empty, header; "none" when it passes all.
FirstFailedGate(archive) ==
    IF ~archive.zip THEN "archive"
    ELSE IF DatabaseEntries(archive) = <<>> THEN "database"
    ELSE IF ~HasManifest(archive) THEN "media"
    ELSE IF ManifestHasEntries(archive) THEN "policy"
    ELSE IF DatabaseEntries(archive)[1].data = <<>> THEN "empty"
    ELSE IF HeaderMismatch(DatabaseEntries(archive)[1].data) THEN "header"
    ELSE "none"

\* The gate an error of validateApkgFile belongs to.
GateOf(kind) ==
    CASE kind = "FileValidationFailed" -> "archive"
      [] kind = "MissingDatabase" -> "database"
      [] kind = "MissingMedia" -> "media"
      [] kind \in {"ReferencedMedia", "ManifestMedia"} -> "policy"
      [] kind = "EmptyDatabase" -> "empty"
      [] kind = "InvalidHeader" -> "header"
      [] OTHER -> "none"

\* C12: the error of a failed validation is that of the first gate, in the
\* order archive parse, database entry, media entry, media policy, database
\* non-empty, magic header, that the archive does not pass; an archive that
\* passes every gate gets none of their errors; and after a gate has failed
\* nothing of the later steps has happened: sql.js has not been loaded and no
\* database has been opened.
C12_FirstFailedGateReported ==
    validation # <<>>
        => /\ GateOf(IF validation[1].isValid THEN "none"
                     ELSE validation[1].error.kind) = FirstFailedGate(file)
           /\ FirstFailedGate(file) # "none"
                 => /\ handles = <<>>
                    /\ ~SQL
                    /\ loadingPromise = "null"

\* C12 happens: an archive whose database entry is empty and which has no
\* media entry was rejected for the media entry.
C12_Witness ==
    /\ validation # <<>>
    /\ ~validation[1].isValid
    /\ validation[1].error.kind = "MissingMedia"
    /\ DatabaseEntries(file) # <<>>
    /\ DatabaseEntries(file)[1].data = <<>>

\* validateApkgFile has opened the database.
DatabaseOpened ==
    \E k \in 1..Len(handles) : handles[k].owner = "validateApkgFile"

\* The required tables that the database file of the archive does not hold.
AbsentTables(archive) ==
    {table \in {"cards", "notes", "col"} :
        ~(/\ EngineReads(DatabaseEntries(archive)[1].data)
          /\ table \in archive.db.tables)}

\* C13: once the database has been opened, the validation succeeds only if
\* cards, notes and col all exist, and if one is missing it fails with the
\* missing-tables error that lists the missing tables and no other, each once.
C13_MissingTablesListed ==
    (validation # <<>> /\ DatabaseOpened)
        => /\ validation[1].isValid => AbsentTables(file) = {}
           /\ AbsentTables(file) # {}
                 => /\ ~validation[1].isValid
                    /\ validation[1].error.kind = "MissingTables"
                    /\ {validation[1].error.missing[k] :
                           k \in 1..Len(validation[1].error.missing)}
                          = AbsentTables(file)
                    /\ Len(validation[1].error.missing)
                          = Cardinality(AbsentTables(file))

\* C13 happens: a database that holds one of the three tables was rejected
\* with the two others listed.
C13_Witness ==
    /\ validation # <<>>
    /\ DatabaseOpened
    /\ ~validation[1].isValid
    /\ validation[1].error.kind = "MissingTables"
    /\ Len(validation[1].error.missing) = 2
    /\ Cardinality(AbsentTables(file)) = 2

\* The manifest is present and is not JSON.
Unparseable(manifest) == manifest.kind \in {"malformed", "binary"}

\* C17: for an archive whose media manifest is not parseable as JSON, the
\* result of the validation is the result for the same archive with the
\* manifest {}, and no failure is a media failure.
C17_UnparseableManifestAsEmpty ==
    (validation # <<>> /\ HasManifest(file) /\ Unparseable(file.manifest))
        => /\ validation[1]
                 = validateApkgFile([file EXCEPT !.manifest = EmptyManifest], SQL)
           /\ ~validation[1].isValid => ~IsMediaNotSupported(validation[1].error)

\* C17 happens: an archive with a binary media entry and a stray file passed
\* the validation.
C17_Witness ==
    /\ validation # <<>>
    /\ file.manifest.kind = "binary"
    /\ validation[1].isValid
    /\ validation[1].fileCount = 3

\* The entries that are candidate media: no directory, not the database, not
\* media, not meta.
CandidateIndices(archive) ==
    {k \in 1..Len(archive.files) :
        /\ ~archive.files[k].dir
        /\ archive.files[k].name \notin {MediaName, MetaName}
        /\ ~IsDatabaseFile(archive.files[k].name)}

\* The archive without the entries at the positions S.
Without(archive, S) ==
    LET kept == Ascending((1..Len(archive.files)) \ S)
    IN  [archive EXCEPT !.files = [i \in 1..Len(kept) |-> archive.files[kept[i]]]]

\* The manifest maps the archive-relative file name to a logical name.
ReferencedByKey(name, manifest) ==
    /\ manifest.kind \in {"object", "array"}
    /\ \E k \in 1..Len(manifest.keys) : manifest.keys[k] = name

\* The manifest maps some file to this logical name.
NamedByValue(name, manifest) ==
    /\ manifest.kind \in {"object", "array"}
    /\ \E k \in 1..Len(manifest.values) : manifest.values[k] = name

\* Both validations succeed, or both fail with an error of the same kind, the
\* two media errors being one kind (MediaNotSupported).
SameKind(a, b) ==
    /\ a.isValid = b.isValid
    /\ ~a.isValid
          => \/ a.error = b.error
             \/ IsMediaNotSupported(a.error) /\ IsMediaNotSupported(b.error)

\* The two results are equal but for the number of entries they count.
SameOutcome(a, b) ==
    /\ a.isValid = b.isValid
    /\ ~a.isValid => a.error = b.error
    /\ a.isValid => /\ a.databaseBuffer = b.databaseBuffer
                    /\ a.databaseSize = b.databaseSize

ReferencedEntries(archive) ==
    {archive.files[k].name :
        k \in {j \in CandidateIndices(archive) :
                 ReferencedByKey(archive.files[j].name, archive.manifest)}}

\* C19 as stated: an archive with a database and a media entry in which some
\* candidate entry is referenced by the manifest is rejected with a media
\* error that carries the number of referenced files and names of them.
C19_ReferencedEntryRejected ==
    (/\ validation # <<>>
     /\ HasManifest(file)
     /\ DatabaseEntries(file) # <<>>
     /\ ReferencedEntries(file) # {})
        => /\ ~validation[1].isValid
           /\ IsMediaNotSupported(validation[1].error)
           /\ validation[1].error.count = Cardinality(ReferencedEntries(file))
           /\ "names" \in DOMAIN validation[1].error
           /\ validation[1].error.names # <<>>
           /\ \A k \in 1..Len(validation[1].error.names) :
                 validation[1].error.names[k] \in ReferencedEntries(file)

\* C25: no query is executed on a handle after that handle has been closed, in
\* validateApkgFile, in loadAndParseDeck and in handleFileSelect; so the
\* handle that the parser reads has not been closed before.
C25_NoQueryAfterClose ==
    \A i \in 1..Len(events) : \A j \in 1..Len(events) :
        (i < j /\ events[i].op = "close" /\ events[j].op = "query")
            => events[i].handle # events[j].handle

\* An import of the import page that has opened, read and closed the handle of
\* the validator and then the handle of the parser.
C25_Witness ==
    /\ pc = "done"
    /\ page = "DeckImportPage"
    /\ parsedData # <<>> /\ parsedData[1].success
    /\ events = <<Opened(1)>> \o QueryThenClose(1)
                 \o <<Opened(2)>> \o QueryThenClose(2)
    /\ \A h \in 1..Len(handles) : ~handles[h].open

-----------------------------------------------------------------------------
(* Claims about a session of imports (SpecSession) *)

\* The imports that have come back from await initializeSqlJs().
Resumed == {i \in 1..Len(imports) : imports[i].initResult # <<>>}

\* C29: under any interleaving of the calls of initializeSqlJs the script is
\* injected at most once and the engine initialised at most once, the callers
\* that waited for the load all get the same boolean, and a call made when
\* SQL is set gets true.
C29_LoadedAtMostOnce ==
    /\ loader.scripts <= 1
    /\ loader.inits <= 1
    /\ \A i \in Resumed : \A j \in Resumed :
          (imports[i].waits = "promise" /\ imports[j].waits = "promise")
             => imports[i].initResult = imports[j].initResult
    /\ \A i \in Resumed : imports[i].waits = "true" => imports[i].initResult = <<TRUE>>
    /\ (\E i \in Resumed : imports[i].initResult = <<TRUE>>) => SQL

\* Two calls waited for one load of the script and got true, a third call
\* came after SQL was set and got true at once.
C29_Witness ==
    /\ Len(imports) = 3
    /\ Resumed = {1, 2, 3}
    /\ imports[1].waits = "promise" /\ imports[2].waits = "promise"
    /\ imports[3].waits = "true"
    /\ \A i \in Resumed : imports[i].initResult = <<TRUE>>
    /\ loader.scripts = 1 /\ loader.inits = 1

\* C24 as stated: the outcome of an import is a function of its own bytes; an
\* import that begins while sql.js can be fetched gets what validateApkgFile
\* gives for its archive in a session without any other import.
C24_OutcomeOfOwnBytesOnly ==
    \A i \in 1..Len(imports) :
        (imports[i].pc = "done" /\ imports[i].online)
            => imports[i].validation[1] = validateApkgFile(imports[i].archive, TRUE)

-----------------------------------------------------------------------------
(* Claims about executeQuery (SpecQuery) *)

\* C30 as stated: when executeQuery has returned, the statement it prepared
\* has been freed, also when a step or the reading of a row threw.
C30_StatementFreed ==
    queryResult # <<>> => statement # "prepared"

-----------------------------------------------------------------------------
(* Claims about the parser (SpecParse) *)

\* text holds an img tag with a src attribute: "<img", then "src=" before the
\* tag closes.
HasImgSrc(text) ==
    \E i \in 1..Len(text) :
        /\ StartsWithAt(text, i, <<"<", "i", "m", "g">>, TRUE)
        /\ \E j \in (i + 4)..Len(text) :
              /\ StartsWithAt(text, j, <<"s", "r", "c", "=">>, TRUE)
              /\ \A k \in i..j : text[k] # ">"

\* text holds a sound macro: "[sound:", a name, "]".
HasSoundMacro(text) ==
    \E i \in 1..Len(text) :
        /\ StartsWithAt(text, i, SoundOpen, TRUE)
        /\ \E j \in (i + Len(SoundOpen) + 1)..Len(text) : text[j] = "]"

\* text holds the opening tag of a video, audio, object or embed element.
HasMediaElement(text) ==
    \E i \in 1..Len(text) :
        \E name \in {<<"v", "i", "d", "e", "o">>, <<"a", "u", "d", "i", "o">>, <<"o", "b", "j", "e", "c", "t">>, <<"e", "m", "b", "e", "d">>} :
            StartsWithAt(text, i, <<"<">> \o name, TRUE)

HasMedium(text) ==
    /\ text # NotAString
    /\ (HasImgSrc(text) \/ HasSoundMacro(text) \/ HasMediaElement(text))

\* The fields of a note: the parts of flds between the unit separators.
FieldsOf(note) == IF note.flds = <<>> THEN <<>> ELSE SplitFrom(note.flds, 1, UnitSeparator)

\* The locations of the deck whose text holds a medium.
OffendingLocations(db) ==
    UNION {{<<"front", m, k>> :
              k \in {j \in 1..Len(db.models.value[m].tmpls) :
                       HasMedium(db.models.value[m].tmpls[j].qfmt)}} :
           m \in 1..Len(db.models.value)}
    \cup UNION {{<<"back", m, k>> :
                   k \in {j \in 1..Len(db.models.value[m].tmpls) :
                            HasMedium(db.models.value[m].tmpls[j].afmt)}} :
                m \in 1..Len(db.models.value)}
    \cup {<<"css", m, 0>> : m \in {j \in 1..Len(db.models.value) :
                                     HasMedium(db.models.value[j].css)}}
    \cup UNION {{<<"field", n, f>> :
                   f \in {g \in 1..Len(FieldsOf(db.notes[n])) :
                            HasMedium(FieldsOf(db.notes[n])[g])}} :
                n \in 1..Len(db.notes)}

\* C2 as stated: a deck with a medium in a template, in the CSS or in a field
\* of a note gets the media failure of parseFullDeck, with one entry per
\* offending location and no entry without media.
C2_EveryMediumRejected ==
    (parsedData # <<>> /\ OffendingLocations(file.db) # {})
        => /\ ~parsedData[1].success
           /\ "mediaDetails" \in DOMAIN parsedData[1]
           /\ parsedData[1].error.kind = "MediaInContent"
           /\ Len(parsedData[1].mediaDetails) = Cardinality(OffendingLocations(file.db))
           /\ \A k \in 1..Len(parsedData[1].mediaDetails) :
                 parsedData[1].mediaDetails[k].media # <<>>

\* C14 as stated: whatever optional column is absent (conf of col, mid and
\* did of notes, did and queue of cards), every table still yields all its
\* other data: the decks and the models of col, every note with its id and
\* fields, every card with its id, note and template, the two counts; and the
\* entities carry null for the absent column.
C14_AbsentColumnsDefaulted ==
    (parsedData # <<>> /\ parsedData[1].success)
        => /\ ("decks" \in file.db.columns.col /\ file.db.decks.valid)
                 => Len(parsedData[1].deckInfo.decks) = Len(file.db.decks.value)
           /\ ("models" \in file.db.columns.col /\ file.db.models.valid)
                 => Len(parsedData[1].noteTypes.models)
                       = Len(file.db.models.value)
           /\ {"id", "flds"} \subseteq file.db.columns.notes
                 => /\ Len(parsedData[1].notes) = Len(file.db.notes)
                    /\ \A k \in 1..Len(file.db.notes) :
                          /\ parsedData[1].notes[k].id = file.db.notes[k].id
                          /\ parsedData[1].notes[k].fields
                                = NoteFields(<<file.db.notes[k].flds>>)
                          /\ "did" \notin file.db.columns.notes
                                => parsedData[1].notes[k].deckId = <<>>
                          /\ "mid" \notin file.db.columns.notes
                                => parsedData[1].notes[k].modelId = <<>>
           /\ {"id", "nid", "ord"} \subseteq file.db.columns.cards
                 => /\ Len(parsedData[1].cards) = Len(file.db.cards)
                    /\ \A k \in 1..Len(file.db.cards) :
                          /\ parsedData[1].cards[k].id = <<file.db.cards[k].id>>
                          /\ parsedData[1].cards[k].noteId = file.db.cards[k].nid
                          /\ parsedData[1].cards[k].templateIndex
                                = file.db.cards[k].ord
                          /\ parsedData[1].cards[k].queue
                                = IF "queue" \in file.db.columns.cards
                                  THEN <<file.db.cards[k].queue>> ELSE <<>>
                          /\ "did" \notin file.db.columns.cards
                                => parsedData[1].cards[k].deckId = <<>>
           /\ parsedData[1].statistics.totalCards = Len(file.db.cards)
           /\ parsedData[1].statistics.totalNotes = Len(file.db.notes)
           /\ "queue" \notin file.db.columns.cards
                 => parsedData[1].statistics.cardsByStatus = <<>>
           /\ "did" \notin file.db.columns.notes
                 => parsedData[1].statistics.notesByDeck = {}

\* One of the two statements that read the col row cannot be prepared:
\* SELECT decks, conf FROM col or SELECT models FROM col.
OuterQueryFails(db) ==
    \/ ~({"decks", "conf"} \subseteq db.columns.col)
    \/ "models" \notin db.columns.col

\* C15 as stated: when the query that reads the decks or the models column
\* fails, parseFullDeck fails with a SchemaMismatch error and the page gets
\* no deck.
C15_OuterQueryFailureFatal ==
    (parsedData # <<>> /\ OuterQueryFails(file.db))
        => /\ ~parsedData[1].success
           /\ parsedData[1].error.kind = "SchemaMismatch"
           /\ deckData = <<>>

\* The col row is read, and its decks or its models column is not JSON.
BlobInvalid(db) ==
    /\ ~OuterQueryFails(db)
    /\ ~db.decks.valid \/ ~db.models.valid

\* The same database with {} in place of the column that is not JSON.
Repaired(db) ==
    [db EXCEPT !.decks = IF @.valid THEN @ ELSE [valid |-> TRUE, value |-> <<>>],
               !.models = IF @.valid THEN @ ELSE [valid |-> TRUE, value |-> <<>>]]

\* The texts of the database that the media gate scans: the fields of the
\* notes, and the templates and the CSS of the models that were decoded.
ScannedTexts(db) ==
    UNION {{NoteFields(<<db.notes[n].flds>>)[f] :
               f \in 1..Len(NoteFields(<<db.notes[n].flds>>))} :
           n \in 1..Len(db.notes)}
    \cup (IF ~db.models.valid THEN {}
          ELSE UNION {{db.models.value[m].css}
                      \cup {db.models.value[m].tmpls[j].qfmt :
                               j \in 1..Len(db.models.value[m].tmpls)}
                      \cup {db.models.value[m].tmpls[j].afmt :
                               j \in 1..Len(db.models.value[m].tmpls)} :
                      m \in 1..Len(db.models.value)})

\* Nothing the media gate scans stops the import.
ContentPasses(db) ==
    \A text \in ScannedTexts(db) :
        text # NotAString /\ detectMediaReferences(text) = <<>>

\* C16: a decks or models column that is not JSON does not abort the import.
\* parseFullDeck answers what it answers for the same database with an empty
\* JSON object in that column; it succeeds whenever the content passes the
\* media gate; and its result then has an empty deck map, respectively an
\* empty model map, next to every note and card of the database and the two
\* counts.
C16_InvalidBlobKeepsRows ==
    (parsedData # <<>> /\ BlobInvalid(file.db))
        => /\ parsedData[1] = parseFullDeck(Repaired(file.db))
           /\ ContentPasses(file.db) => parsedData[1].success
           /\ parsedData[1].success
                 => /\ ~file.db.decks.valid
                          => /\ parsedData[1].deckInfo.decks = <<>>
                             /\ parsedData[1].deckInfo.defaultDeck = <<>>
                    /\ ~file.db.models.valid
                          => parsedData[1].noteTypes.models = <<>>
                    /\ Len(parsedData[1].notes) = Len(file.db.notes)
                    /\ \A k \in 1..Len(file.db.notes) :
                          /\ parsedData[1].notes[k].id = file.db.notes[k].id
                          /\ parsedData[1].notes[k].fields
                                = NoteFields(<<file.db.notes[k].flds>>)
                    /\ Len(parsedData[1].cards) = Len(file.db.cards)
                    /\ \A k \in 1..Len(file.db.cards) :
                          parsedData[1].cards[k].id = <<file.db.cards[k].id>>
                    /\ parsedData[1].statistics.totalNotes = Len(file.db.notes)
                    /\ parsedData[1].statistics.totalCards = Len(file.db.cards)
                    /\ deckData = <<parsedData[1]>>

\* C16 happens: a database whose decks and models columns are both not JSON
\* was parsed into two notes and three cards.
C16_Witness ==
    /\ parsedData # <<>>
    /\ ~file.db.decks.valid
    /\ ~file.db.models.valid
    /\ parsedData[1].success
    /\ Len(parsedData[1].notes) = 2
    /\ Len(parsedData[1].cards) = 3

\* The status the specification gives a queue value; <<>> is null.
ExpectedStatus(queue) ==
    IF queue = <<0>> THEN <<"N", "e", "w">>
    ELSE IF queue = <<1>> THEN <<"L", "e", "a", "r", "n", "i", "n", "g">>
    ELSE IF queue = <<2>> THEN <<"R", "e", "v", "i", "e", "w">>
    ELSE IF queue = <<-1>> THEN <<"S", "u", "s", "p", "e", "n", "d", "e", "d">>
    ELSE IF queue = <<-2>> THEN <<"B", "u", "r", "i", "e", "d", " ", "(", "s", "c", "h", "e", "d", "u", "l", "e", "r", ")">>
    ELSE IF queue = <<-3>> THEN <<"B", "u", "r", "i", "e", "d", " ", "(", "u", "s", "e", "r", ")">>
    ELSE <<"U", "n", "k", "n", "o", "w", "n", " ", "(">>
         \o (IF queue = <<>> THEN <<"n", "u", "l", "l">> ELSE NumberToString(queue[1]))
         \o <<")">>

\* C20 as stated: the status of every card parseCards returns is the one of
\* that card's queue value, "Unknown (v)" with that same value v for a value
\* outside -3..2, also when the table has no queue column.
C20_StatusOfQueue ==
    (parsedData # <<>> /\ parsedData[1].success)
        => \A k \in 1..Len(parsedData[1].cards) :
              parsedData[1].cards[k].status
                 = ExpectedStatus(parsedData[1].cards[k].queue)

\* The fields joined again with the separator.
RECURSIVE Joined(_, _)
Joined(flds, sep) ==
    IF flds = <<>> THEN <<>>
    ELSE IF Len(flds) = 1 THEN flds[1]
    ELSE flds[1] \o <<sep>> \o Joined(Tail(flds), sep)

\* The i-th field of a note, the empty text when the note has fewer fields.
FieldAt(flds, i) == IF i \in 1..Len(flds) THEN flds[i] ELSE <<>>

\* The front of a card whose template is {{A}} or {{A}}|{{B}}, when the value
\* rendered for the i-th field name is the i-th field of the note.
FrontOfFields(qfmt, flds) ==
    IF qfmt = FieldA THEN FieldAt(flds, 1)
    ELSE FieldAt(flds, 1) \o <<"|">> \o FieldAt(flds, 2)

\* C21: parseNotes splits flds on the unit separator only, never on blanks:
\* for every note with a non-empty flds the returned fields joined with the
\* separator are flds, no field holds a separator, and in the preview of a
\* card of that note the i-th field is what stands for the i-th field name.
C21_FieldsSplitOnSeparatorOnly ==
    (parsedData # <<>> /\ parsedData[1].success)
        => \A k \in 1..Len(parsedData[1].notes) :
              file.db.notes[k].flds # <<>>
                 => /\ Joined(parsedData[1].notes[k].fields, UnitSeparator)
                          = file.db.notes[k].flds
                    /\ \A f \in 1..Len(parsedData[1].notes[k].fields) :
                          \A c \in 1..Len(parsedData[1].notes[k].fields[f]) :
                             parsedData[1].notes[k].fields[f][c] # UnitSeparator
                    /\ \A p \in 1..Len(allCards) :
                          (/\ allCards[p].noteId = parsedData[1].notes[k].id
                           /\ file.db.models.valid
                           /\ file.db.models.value[1].tmpls[1].qfmt
                                 \in {FieldA, BothFields})
                             => allCards[p].front
                                  = FrontOfFields(
                                       file.db.models.value[1].tmpls[1].qfmt,
                                       parsedData[1].notes[k].fields)

\* A note whose flds is a blank, a separator and a letter has been parsed and
\* shown: two fields, the first one the blank.
C21_Witness ==
    /\ pc = "done"
    /\ parsedData # <<>> /\ parsedData[1].success
    /\ file.db.notes[1].flds = <<" ", UnitSeparator, "a">>
    /\ parsedData[1].notes[1].fields = << <<" ">>, <<"a">> >>
    /\ Len(allCards) = 1
    /\ allCards[1].front = <<" ", "|", "a">>

\* The places of the lists of a grouping: <<key, index>>.
Places(grouping) ==
    UNION {{<<key, j>> : j \in 1..Len(grouping[key])} : key \in DOMAIN grouping}

\* The places at which a grouping holds the element.
PlacesOf(grouping, element) ==
    {place \in Places(grouping) : grouping[place[1]][place[2]] = element}

\* The grouping holds every element of the list at one place and no more, in
\* the list under the key of that element; it has as many places as the list
\* has elements, and none of its lists is empty.
Partitions(grouping, list, KeyOf(_)) ==
    /\ \A k \in 1..Len(list) :
          /\ Cardinality(PlacesOf(grouping, list[k])) = 1
          /\ KeyOf(list[k]) \in DOMAIN grouping
          /\ \E j \in 1..Len(grouping[KeyOf(list[k])]) :
                grouping[KeyOf(list[k])][j] = list[k]
    /\ Cardinality(Places(grouping)) = Len(list)
    /\ \A key \in DOMAIN grouping : grouping[key] # <<>>

\* C22: buildRelationships partitions the cards by cardsByNote[card.noteId]
\* and the notes by notesByDeck[note.deckId], under 'unknown' for a note
\* without a deck id: every card and every note is in one list only, the
\* list of its key, the sizes of the lists add up to the numbers of cards and
\* of notes, and no list is empty.
C22_RelationshipsPartition ==
    (parsedData # <<>> /\ parsedData[1].success)
        => /\ Partitions(parsedData[1].relationships.cardsByNote,
                         parsedData[1].cards,
                         LAMBDA card : NumberToString(card.noteId))
           /\ Partitions(parsedData[1].relationships.notesByDeck,
                         parsedData[1].notes,
                         LAMBDA note : IF note.deckId = <<>> THEN <<"u", "n", "k", "n", "o", "w", "n">>
                                       ELSE NumberToString(note.deckId[1]))

\* Three notes, one of them without a deck and two in the deck 2, and three
\* cards, two of the note 1 and one of a note that does not exist.
C22_Witness ==
    /\ pc = "done"
    /\ parsedData # <<>> /\ parsedData[1].success
    /\ Len(parsedData[1].notes) = 3 /\ Len(parsedData[1].cards) = 3
    /\ DOMAIN parsedData[1].relationships.cardsByNote = {<<"1">>, <<"9">>}
    /\ Len(parsedData[1].relationships.cardsByNote[<<"1">>]) = 2
    /\ DOMAIN parsedData[1].relationships.notesByDeck = {<<"u", "n", "k", "n", "o", "w", "n">>, <<"2">>}
    /\ Len(parsedData[1].relationships.notesByDeck[<<"2">>]) = 2

\* The cards whose noteId is the id of no note.
OrphanedCards(notes, cards) ==
    {k \in 1..Len(cards) :
        \A n \in 1..Len(notes) : notes[n].id # cards[k].noteId}

\* C23 as stated: the statistics of an imported deck have a count of orphaned
\* cards, and it is the number of cards whose noteId is the id of no note.
C23_OrphanedCardsCounted ==
    (parsedData # <<>> /\ parsedData[1].success)
        => /\ "orphanedCards" \in DOMAIN parsedData[1].statistics
           /\ parsedData[1].statistics.orphanedCards
                 = Cardinality(OrphanedCards(parsedData[1].notes,
                                             parsedData[1].cards))

\* C26: executeQuery propagates no exception, a query that fails gives the
\* empty result: when the notes-by-deck query of getDeckStatistics fails, the
\* parse ends as it ends without that failure, and the card total, the note
\* total and the cards by status are what they are without it.
C26_FailedQueryIsEmptyResult ==
    (parsedData # <<>> /\ "notesByDeck" \in file.db.faults)
        => /\ parsedData[1].success
                = parseFullDeck([file.db EXCEPT !.faults = @ \ {"notesByDeck"}]).success
           /\ parsedData[1].success
                => /\ parsedData[1].statistics.notesByDeck = {}
                   /\ parsedData[1].statistics.totalCards
                         = StatisticsOf(file.db, file.db.faults \ {"notesByDeck"}).totalCards
                   /\ parsedData[1].statistics.totalNotes
                         = StatisticsOf(file.db, file.db.faults \ {"notesByDeck"}).totalNotes
                   /\ parsedData[1].statistics.cardsByStatus
                         = StatisticsOf(file.db, file.db.faults \ {"notesByDeck"}).cardsByStatus
                   /\ file.db.faults = {"notesByDeck"}
                         => /\ parsedData[1].statistics.totalCards = Len(file.db.cards)
                            /\ parsedData[1].statistics.totalNotes = Len(file.db.notes)
                            /\ parsedData[1].statistics.cardsByStatus # <<>>

\* A deck of two notes and three cards has been parsed while the
\* notes-by-deck query, and no other, failed.
C26_Witness ==
    /\ pc = "done"
    /\ parsedData # <<>> /\ parsedData[1].success
    /\ file.db.faults = {"notesByDeck"}
    /\ parsedData[1].statistics.totalCards = 3
    /\ parsedData[1].statistics.totalNotes = 2
    /\ Len(parsedData[1].statistics.cardsByStatus) = 2
    /\ parsedData[1].statistics.notesByDeck = {}

\* C27 as stated: in a deck that has passed the media gate of parseFullDeck
\* no preview holds a media reference: detectMediaReferences finds nothing in
\* its front and in its back, and its mediaFound list is empty.
C27_PreviewsWithoutMedia ==
    (parsedData # <<>> /\ parsedData[1].success)
        => \A p \in 1..Len(allCards) :
              /\ allCards[p].mediaFound = <<>>
              /\ detectMediaReferences(allCards[p].front) = <<>>
              /\ detectMediaReferences(allCards[p].back) = <<>>

-----------------------------------------------------------------------------
(* Claims about the template renderer (SpecRender) *)

\* pat occurs somewhere in s, compared exactly.
Occurs(s, pat) == IndexOf(s, 1, pat, FALSE) # 0

\* The number of places of s where pat begins.
Occurrences(s, pat) == Cardinality({k \in 1..Len(s) : StartsWithAt(s, k, pat, FALSE)})

\* s holds "{{", one or more characters other than "}", then "}}".
ContainsPlaceholder(s) ==
    \E i \in 1..Len(s) : \E e \in (i + 3)..(Len(s) - 1) :
        /\ s[i] = "{" /\ s[i + 1] = "{"
        /\ s[e] = "}" /\ s[e + 1] = "}"
        /\ \A k \in (i + 2)..(e - 1) : s[k] # "}"

\* The case of C6: front {{A}}, back {{FrontSide}}-{{A}}, A = "{{FrontSide}}".
IsC6Case ==
    /\ template = [front |-> FieldA, back |-> BackWithFrontSide]
    /\ fieldNames[1] = <<"A">>
    /\ fields[1] = FrontSideToken

FrontBeforeCleanUp == ClozeStep(Substituted(template.front, fields, fieldNames, <<>>), 1)

\* The back template after field, FrontSide and cloze processing.
BackBeforeCleanUp ==
    ClozeStep(Substituted(template.back, fields, fieldNames, frontResult.content), 1)

\* C7: no {{...}} placeholder that remains after field, FrontSide and cloze
\* processing is left in the output of processAnkiTemplate, and whenever one
\* remained the output shows the missing-field marker (so it is not empty).
C7_NoPlaceholderLeft ==
    /\ rpc # "start" =>
          /\ ~ContainsPlaceholder(frontResult.content)
          /\ ContainsPlaceholder(FrontBeforeCleanUp) =>
                Occurs(frontResult.content, MissingField)
    /\ rpc = "back" =>
          /\ ~ContainsPlaceholder(backResult.content)
          /\ ContainsPlaceholder(BackBeforeCleanUp) =>
                Occurs(backResult.content, MissingField)

\* C7 happens: two unresolved {{Missing}} placeholders reached the clean-up step
\* and the front shows two markers.
C7_Witness ==
    /\ rpc = "front"
    /\ Occurrences(FrontBeforeCleanUp, <<"{","{","M","i","s","s","i","n","g","}","}">>) = 2
    /\ Occurrences(frontResult.content, MissingField) = 2

\* C8 as stated: a template that is exactly {{A}} renders to the value of A
\* unchanged, for every value without a brace (a value with no brace is touched
\* by no later step).
C8_ValueAsIs ==
    (/\ rpc = "front"
     /\ template.front = FieldA
     /\ fieldNames[1] = <<"A">>
     /\ NoneIn(fields[1], 1, Len(fields[1]), {"{", "}"}))
    => frontResult.content = fields[1]

\* The text of a cloze token splits from its hint at one place only.
WellFormedClozeText(t) ==
    /\ ~Occurs(t, <<":",":">>)
    /\ t # <<>> => t[Len(t)] # ":"

\* C9 as stated: a template that is one cloze token {{c<N>::<text>}} or
\* {{c<N>::<text>::<hint>}} renders to the reveal of <text> alone.
C9_RevealOfTextOnly ==
    rpc = "front" =>
        \A n \in {<<"1">>, <<"2","0">>} :
        \A t \in Texts(ClozeChars, MaxClozeLen) :
        \A h \in Texts(ClozeChars, MaxClozeLen) :
        \A hh \in BOOLEAN :
            (template.front = ClozeToken(n, t, h, hh) /\ WellFormedClozeText(t))
            => frontResult.content = ClozeOpen \o t \o ClozeClose

\* C28 as stated: the {{FrontSide}} of the back template is replaced by the
\* rendered front of the card, whatever that front is, the empty text
\* included: the back template {{FrontSide}}-{{A}} renders to the front, a
\* dash and the value of A (for a value and a front that bring no brace and
\* no dollar sign of their own into the replacement).
C28_FrontSideIsRenderedFront ==
    (/\ rpc = "back"
     /\ template.back = BackWithFrontSide
     /\ fieldNames[1] = <<"A">>
     /\ NoneIn(fields[1], 1, Len(fields[1]), {"{", "}", "$"})
     /\ NoneIn(frontResult.content, 1, Len(frontResult.content), {"$"}))
    => backResult.content = frontResult.content \o <<"-">> \o fields[1]

====
